---------------------------- MODULE Spec2Model ----------------------------
(***************************************************************************)
(* Skyline native-execution core: the GroupMutex (common.h), the           *)
(* execution supervisor NCE::KernelThread / NCE::Execute, thread start     *)
(* and injected function calls on a ThreadContext (nce.cpp), and the       *)
(* KThread lifecycle (KThread.cpp).                                        *)
(***************************************************************************)
EXTENDS Integers, Sequences, FiniteSets, TLC

\* ------------------------------------------------------------------ bounds
NumThreads == 2          \* guest threads of the supervised process
NumClients == 3          \* threads calling lock/unlock in the stand-alone mutex model
MaxReg == 1              \* register snapshots are values 0..MaxReg

\* --------------------------------------------------------------- universes
Threads == 1 .. NumThreads
Clients == 1 .. NumClients
Regs == 0 .. MaxReg

\* state.process->pid: the pid of the process's primary thread
PrimaryPid == 1

\* GroupMutex::Group
Groups == {"Group1", "Group2"}
DefaultGroup == "Group1"

\* users of a GroupMutex: stand-alone clients, one watcher per guest thread,
\* the render loop
ClientId(c) == <<"c", c>>
WatcherId(t) == <<"w", t>>
RenderId == <<"r", 0>>
Lockers == {ClientId(c) : c \in Clients} \cup {WatcherId(t) : t \in Threads} \cup {RenderId}

\* ThreadState (the values of ThreadContext.state)
ThreadStates == {"NotReady", "WaitInit", "WaitRun", "WaitFunc", "WaitKernel", "GuestCrash"}

\* values of ThreadContext.commandId: supervisor-call numbers, of which only
\* some have an entry in kernel::svc::SvcTable; signal numbers; ThreadCall selectors
SvcNumbers == {0, 1}
Implemented == {1}
Signals == {11}
ThreadCalls == {256}

VARIABLES
    flag,        \* GroupMutex::flag  : the group holding the mutex
    next,        \* GroupMutex::next  : the group that holds it next
    num,         \* GroupMutex::num   : number of users holding the mutex
    want,        \* per user: the group it is blocked in lock() for, or "None"
    holding,     \* per user: the group it has locked the mutex as, or "None"
    Halt,        \* extern bool Halt
    Surface,     \* extern jobject Surface: TRUE when non-null
    ctxState,    \* per guest thread: ThreadContext.state
    commandId,   \* per guest thread: ThreadContext.commandId
    registers,   \* per guest thread: ThreadContext.registers
    tpidrroEl0,  \* per guest thread: ThreadContext.tpidrroEl0 written (TRUE) or not
    gpc,         \* per guest thread: where the guest code is
    status,      \* per guest thread: KThread::status
    procStatus,  \* KProcess::status
    spc,         \* per guest thread: position of the StartThread call
    signals,     \* per guest thread: calls of KSyncObject::Signal made by KThread::Kill
    pcW,         \* per guest thread: position of its watcher NCE::KernelThread
    svc,         \* per watcher: the local svc read at nce.cpp:39
    invoked,     \* per watcher: handlers invoked since the last WaitKernel observation
    returned,    \* per watcher: the invoked handler returned normally
    herr,        \* per watcher: the exception its loop ended with, <<>> when none
    pcR,         \* position of the render loop NCE::Execute
    ipc,         \* position of the injected call (ExecuteFunction)
    iovl,        \* which ExecuteFunction overload was entered
    itgt,        \* the guest thread the injected call targets
    isaved,      \* ExecuteFunctionCtx local: Registers registers
    funcRegs,    \* ExecuteFunctionCtx parameter funcRegs
    ipre,        \* registers the context held when the arguments replaced them
    gres,        \* per guest thread: registers it left when it last finished a routine
    gcmd,        \* per guest thread: the last supervisor-call number it wrote
    priority,    \* per guest thread: KThread::priority
    linuxPriority, \* per guest thread: the host priority last applied by setpriority
    perr,        \* per guest thread: the exception of its last UpdatePriority, <<>> when none
    code,        \* PatchCode: the instruction stream, as 32-bit words (patched in place)
    entry,       \* PatchCode: the stream and the offset as they were on entry
    baseAddress, \* PatchCode parameter baseAddress
    offset,      \* PatchCode parameter offset (a running byte offset)
    patchOffset, \* PatchCode local patchOffset
    address,     \* PatchCode loop variable, as the word index address - start
    patch,       \* PatchCode local patch: the patch buffer
    frequency,   \* PatchCode static frequency, 0 until it is first read
    ppc,         \* position of the PatchCode call
    lpc,         \* position of the LoadExecutable call
    executable,  \* LoadExecutable: the executable being loaded
    loadOffset,  \* LoadExecutable parameter offset
    lerr,        \* LoadExecutable: the exception it ended with, <<>> when none
    mapped,      \* the KPrivateMemory regions created, in order
    written      \* the WriteMemory calls made, in order

mtxVars == <<flag, next, num, want, holding>>
ctxVars == <<ctxState, commandId, registers, tpidrroEl0>>
guestVars == <<gpc, gres, gcmd>>
threadVars == <<status, procStatus, spc, signals>>
watchVars == <<pcW, svc, invoked, returned, herr>>
injVars == <<ipc, iovl, itgt, isaved, funcRegs, ipre>>
prioVars == <<priority, linuxPriority, perr>>
patchVars == <<code, entry, baseAddress, offset, patchOffset, address, patch, frequency, ppc>>
loadVars == <<lpc, executable, loadOffset, lerr, mapped, written>>
vars == <<mtxVars, Halt, Surface, ctxVars, guestVars, threadVars, watchVars, pcR, injVars, prioVars, patchVars, loadVars>>

\* ------------------------------------------------------------- GroupMutex
\* lock(group) is entered: the caller starts to wait
MtxLockCall(id, g) ==
    /\ want[id] = "None"
    /\ holding[id] = "None"
    /\ want' = [want EXCEPT ![id] = g]
    /\ UNCHANGED <<flag, next, num, holding>>

\* a waiter whose group does not hold the token records its group as the next one
MtxAnnounce(id) ==
    /\ want[id] # "None"
    /\ flag # want[id]
    /\ next = "None"
    /\ next' = want[id]
    /\ UNCHANGED <<flag, num, want, holding>>

\* the group recorded as next takes an unheld token
MtxTake(id) ==
    /\ want[id] # "None"
    /\ next = want[id]
    /\ flag = "None"
    /\ flag' = want[id]
    /\ UNCHANGED <<next, num, want, holding>>

\* a waiter passes whenever the token is held, whatever the group
MtxMayEnterAnyToken(id) == flag # "None"

\* a waiter passes only into an empty mutex: an ordinary exclusive lock
MtxMayEnterExclusive(id) == flag = want[id] /\ num = 0

\* the token a waiter may pass: one held by its own group
MtxMayEnter(id) == flag = want[id]

\* lock() returns without counting the caller as a holder
MtxAcquireNoCount(id) ==
    /\ want[id] # "None"
    /\ MtxMayEnter(id)
    /\ next' = IF next = want[id] THEN "None" ELSE next
    /\ holding' = [holding EXCEPT ![id] = want[id]]
    /\ want' = [want EXCEPT ![id] = "None"]
    /\ UNCHANGED <<flag, num>>

\* lock(group) returns: the token is held by the caller's group, the holder
\* count is incremented and a pending hand-off to this group is consumed
MtxAcquire(id) ==
    /\ want[id] # "None"
    /\ MtxMayEnter(id)
    /\ num' = num + 1
    /\ next' = IF next = want[id] THEN "None" ELSE next
    /\ holding' = [holding EXCEPT ![id] = want[id]]
    /\ want' = [want EXCEPT ![id] = "None"]
    /\ UNCHANGED flag

\* unlock() always clears the token at zero, whatever group is recorded as next
MtxUnlockClears(id) ==
    /\ holding[id] # "None"
    /\ num' = num - 1
    /\ flag' = IF num - 1 = 0 THEN "None" ELSE flag
    /\ holding' = [holding EXCEPT ![id] = "None"]
    /\ UNCHANGED <<next, want>>

\* unlock() only decrements the count and leaves the token as it is
MtxUnlockKeepsToken(id) ==
    /\ holding[id] # "None"
    /\ num' = num - 1
    /\ holding' = [holding EXCEPT ![id] = "None"]
    /\ UNCHANGED <<flag, next, want>>

\* unlock(): decrement the holder count; at zero the token goes to the
\* group recorded as next (None when there is none)
MtxUnlock(id) ==
    /\ holding[id] # "None"
    /\ num' = num - 1
    /\ flag' = IF num - 1 = 0 THEN next ELSE flag
    /\ holding' = [holding EXCEPT ![id] = "None"]
    /\ UNCHANGED <<next, want>>

\* common.h: flag{Group::None}, next{Group::None}, num{0}
MtxInit ==
    /\ flag = "None"
    /\ next = "None"
    /\ num = 0
    /\ want = [id \in Lockers |-> "None"]
    /\ holding = [id \in Lockers |-> "None"]

nceVars == <<Halt, Surface, ctxVars, guestVars, threadVars, watchVars, pcR, injVars, prioVars, patchVars, loadVars>>

\* --------------------------------------------- stand-alone mutex clients
ClientLock(c, g) == MtxLockCall(ClientId(c), g) /\ UNCHANGED nceVars
ClientAnnounce(c) == MtxAnnounce(ClientId(c)) /\ UNCHANGED nceVars
ClientTake(c) == MtxTake(ClientId(c)) /\ UNCHANGED nceVars
ClientAcquire(c) == MtxAcquire(ClientId(c)) /\ UNCHANGED nceVars
ClientUnlock(c) == MtxUnlock(ClientId(c)) /\ UNCHANGED nceVars

HoldersOf(g) == {id \in Lockers : holding[id] = g}

\* ------------------------------------------------------------ the guest
\* The guest side of the Thread Context protocol (generated trampolines and
\* guest entry code): it alone writes WaitInit, WaitKernel and GuestCrash.

\* the guest prologue: the trampoline machinery is live
GuestReady(t) ==
    /\ gpc[t] = "boot"
    /\ ctxState' = [ctxState EXCEPT ![t] = "WaitInit"]
    /\ gpc' = [gpc EXCEPT ![t] = "parkInit"]
    /\ UNCHANGED <<mtxVars, prioVars, patchVars, loadVars, Halt, Surface, commandId, registers, tpidrroEl0, gres, gcmd,
                   threadVars, watchVars, pcR, injVars>>

\* a parked (or crashed) guest sees WaitRun and runs guest code
GuestResume(t) ==
    /\ gpc[t] \in {"parkInit", "parkKernel", "crashed"}
    /\ ctxState[t] = "WaitRun"
    /\ gpc' = [gpc EXCEPT ![t] = "running"]
    /\ UNCHANGED <<mtxVars, prioVars, patchVars, loadVars, Halt, Surface, ctxVars, gres, gcmd, threadVars, watchVars, pcR, injVars>>

\* a supervisor call: the trampoline saves the registers, writes the call
\* number to commandId and parks in WaitKernel
GuestSvc(t, n, r) ==
    /\ gpc[t] = "running"
    /\ registers' = [registers EXCEPT ![t] = r]
    /\ commandId' = [commandId EXCEPT ![t] = n]
    /\ gcmd' = [gcmd EXCEPT ![t] = n]
    /\ ctxState' = [ctxState EXCEPT ![t] = "WaitKernel"]
    /\ gpc' = [gpc EXCEPT ![t] = "parkKernel"]
    /\ UNCHANGED <<mtxVars, prioVars, patchVars, loadVars, Halt, Surface, tpidrroEl0, gres, threadVars, watchVars, pcR, injVars>>

\* a guest fault: the signal number goes to commandId, state to GuestCrash
GuestFault(t, sig) ==
    /\ gpc[t] = "running"
    /\ commandId' = [commandId EXCEPT ![t] = sig]
    /\ ctxState' = [ctxState EXCEPT ![t] = "GuestCrash"]
    /\ gpc' = [gpc EXCEPT ![t] = "crashed"]
    /\ UNCHANGED <<mtxVars, prioVars, patchVars, loadVars, Halt, Surface, registers, tpidrroEl0, gres, gcmd, threadVars,
                   watchVars, pcR, injVars>>

\* a parked guest sees WaitFunc and starts the injected routine
GuestFuncBegin(t) ==
    /\ gpc[t] \in {"parkInit", "parkKernel"}
    /\ ctxState[t] = "WaitFunc"
    /\ gpc' = [gpc EXCEPT ![t] = IF gpc[t] = "parkInit" THEN "funcInit" ELSE "funcKernel"]
    /\ UNCHANGED <<mtxVars, prioVars, patchVars, loadVars, Halt, Surface, ctxVars, gres, gcmd, threadVars, watchVars, pcR, injVars>>

\* the routine is over: its results are left in the registers and the guest
\* parks again where it was parked before
GuestFuncEnd(t, r) ==
    /\ gpc[t] \in {"funcInit", "funcKernel"}
    /\ registers' = [registers EXCEPT ![t] = r]
    /\ gres' = [gres EXCEPT ![t] = r]
    /\ ctxState' = [ctxState EXCEPT ![t] = IF gpc[t] = "funcInit" THEN "WaitInit" ELSE "WaitKernel"]
    /\ gpc' = [gpc EXCEPT ![t] = IF gpc[t] = "funcInit" THEN "parkInit" ELSE "parkKernel"]
    /\ UNCHANGED <<mtxVars, prioVars, patchVars, loadVars, Halt, Surface, commandId, tpidrroEl0, gcmd, threadVars, watchVars,
                   pcR, injVars>>

\* --------------------------------------------------------- the environment
\* the host display layer sets or clears Surface
SetSurface(b) ==
    /\ Surface # b
    /\ Surface' = b
    /\ UNCHANGED <<mtxVars, prioVars, patchVars, loadVars, Halt, ctxVars, guestVars, threadVars, watchVars, pcR, injVars>>

\* Signal() is called whatever the status is
KillAlwaysSignals(t) ==
    /\ status' = [status EXCEPT ![t] = "Dead"]
    /\ signals' = [signals EXCEPT ![t] = @ + 1]

\* KThread.cpp:28-33  KThread::Kill: only a thread that is not Dead becomes
\* Dead and is signalled
Kill(t) ==
    /\ status' = [status EXCEPT ![t] = "Dead"]
    /\ signals' = [signals EXCEPT ![t] = IF status[t] # "Dead" THEN @ + 1 ELSE @]

\* os->KillThread(thread): the thread is torn down (KThread::Kill); tearing
\* down the primary thread tears down the process
KillThread(t) ==
    /\ Kill(t)
    /\ procStatus' = IF t = PrimaryPid THEN "Exiting" ELSE procStatus

\* ------------------------------------------------ KThread::UpdatePriority
\* constant::AndroidPriority and constant::SwitchPriority: the two ends of
\* the host and of the guest priority range
AndroidPriority == <<19, -8>>
SwitchPriority == <<0, 63>>
SwitchRange == SwitchPriority[1] .. SwitchPriority[2]

\* static_cast<int8_t> of the value n / d (d > 0): the fraction is dropped
\* (truncation toward zero) and the result keeps 8 bits
TruncDiv(n, d) == IF n >= 0 THEN n \div d ELSE -((-n) \div d)
Int8(x) == ((x + 128) % 256) - 128

\* the quotient is rounded down instead of truncated toward zero
LinuxPriorityFloors(p) ==
    LET span == AndroidPriority[2] - AndroidPriority[1]
        width == SwitchPriority[2] - SwitchPriority[1]
    IN  Int8((AndroidPriority[1] * width + span * (p - SwitchPriority[1])) \div width)

\* KThread.cpp:37  linuxPriority = first + (second - first) / (width) * (priority - low).
\* The code computes in float; for every u8 priority the float result
\* truncates to the same integer as the exact quotient (the quotient is an
\* integer only at multiples of 7, where the float product is exact).
LinuxPriority(p) ==
    LET span == AndroidPriority[2] - AndroidPriority[1]
        width == SwitchPriority[2] - SwitchPriority[1]
    IN  Int8(TruncDiv(AndroidPriority[1] * width + span * (p - SwitchPriority[1]), width))

\* the text of the exception thrown on KThread.cpp:40
PriorityError(nice, pid) == <<"Couldn't set process priority", nice, pid>>

\* the result of setpriority is not looked at
UpdatePriorityIgnoresFailure(t, p, ok) ==
    /\ priority' = [priority EXCEPT ![t] = p]
    /\ linuxPriority' = IF ok THEN [linuxPriority EXCEPT ![t] = LinuxPriority(p)] ELSE linuxPriority
    /\ perr' = [perr EXCEPT ![t] = <<>>]
    /\ UNCHANGED <<mtxVars, Halt, Surface, ctxVars, guestVars, threadVars, watchVars, pcR, injVars,
                   patchVars, loadVars>>

\* KThread.cpp:35-41  the field is assigned, the host priority is computed
\* and handed to setpriority, whose failure (ok = FALSE) is thrown
UpdatePriority(t, p, ok) ==
    /\ priority' = [priority EXCEPT ![t] = p]
    /\ linuxPriority' = IF ok THEN [linuxPriority EXCEPT ![t] = LinuxPriority(p)] ELSE linuxPriority
    /\ perr' = [perr EXCEPT ![t] = IF ok THEN <<>> ELSE PriorityError(LinuxPriority(p), t)]
    /\ UNCHANGED <<mtxVars, Halt, Surface, ctxVars, guestVars, threadVars, watchVars, pcR, injVars,
                   patchVars, loadVars>>

\* ------------------------------------------- KThread::Start, NCE::StartThread
\* KThread::Start: acts only in status Created
KThreadStart(t) ==
    /\ status[t] = "Created"
    /\ spc[t] = "idle"
    /\ procStatus' = IF t = PrimaryPid THEN "Started" ELSE procStatus
    /\ status' = [status EXCEPT ![t] = "Running"]
    /\ spc' = [spc EXCEPT ![t] = "wait"]
    /\ UNCHANGED <<signals, mtxVars, prioVars, patchVars, loadVars, Halt, Surface, ctxVars, guestVars, watchVars, pcR, injVars>>

\* StartThread goes on without waiting for the guest to reach WaitInit
StartWaitAnyState(t) ==
    /\ spc[t] = "wait"
    /\ spc' = [spc EXCEPT ![t] = "args"]
    /\ UNCHANGED <<mtxVars, prioVars, patchVars, loadVars, Halt, Surface, ctxVars, guestVars, status, procStatus, signals, watchVars,
                   pcR, injVars>>

\* nce.cpp:151  while (ctx->state != ThreadState::WaitInit);
StartWait(t) ==
    /\ spc[t] = "wait"
    /\ ctxState[t] = "WaitInit"
    /\ spc' = [spc EXCEPT ![t] = "args"]
    /\ UNCHANGED <<mtxVars, prioVars, patchVars, loadVars, Halt, Surface, ctxVars, guestVars, status, procStatus, signals, watchVars,
                   pcR, injVars>>

\* nce.cpp:153-155  tpidrroEl0, x0 = entryArg, x1 = handle
StartArgs(t, r) ==
    /\ spc[t] = "args"
    /\ tpidrroEl0' = [tpidrroEl0 EXCEPT ![t] = TRUE]
    /\ registers' = [registers EXCEPT ![t] = r]
    /\ spc' = [spc EXCEPT ![t] = "run"]
    /\ UNCHANGED <<mtxVars, prioVars, patchVars, loadVars, Halt, Surface, ctxState, commandId, guestVars, status, procStatus, signals,
                   watchVars, pcR, injVars>>

\* nce.cpp:156  ctx->state = ThreadState::WaitRun
StartRun(t) ==
    /\ spc[t] = "run"
    /\ ctxState' = [ctxState EXCEPT ![t] = "WaitRun"]
    /\ spc' = [spc EXCEPT ![t] = "spawn"]
    /\ UNCHANGED <<mtxVars, prioVars, patchVars, loadVars, Halt, Surface, commandId, registers, tpidrroEl0, guestVars, status,
                   procStatus, signals, watchVars, pcR, injVars>>

\* nce.cpp:159  the watcher thread NCE::KernelThread is created
StartSpawn(t) ==
    /\ spc[t] = "spawn"
    /\ pcW' = [pcW EXCEPT ![t] = "poll"]
    /\ spc' = [spc EXCEPT ![t] = "done"]
    /\ UNCHANGED <<mtxVars, prioVars, patchVars, loadVars, Halt, Surface, ctxVars, guestVars, status, procStatus, signals, svc, invoked,
                   returned, herr, pcR, injVars>>

\* --------------------------------------------------- NCE::KernelThread
\* what no step of a watcher changes
watcherFrame == <<Surface, commandId, registers, tpidrroEl0, guestVars, spc, pcR, injVars, prioVars, patchVars, loadVars>>

SetPcW(t, p) == pcW' = [pcW EXCEPT ![t] = p]

\* the text of the exception a watcher loop ends with
Unimplemented(n) == <<"Unimplemented SVC", n>>
HandlerError(n) == <<"handler error", n>>
Wrapped(e, n) == <<e, "SVC", n>>

\* the poll of Halt at the top of the loop is missing
WatcherPollIgnoresHalt(t) ==
    /\ pcW[t] = "poll"
    /\ SetPcW(t, "surf")
    /\ UNCHANGED <<mtxVars, Halt, ctxState, status, procStatus, signals, svc, invoked, returned, herr,
                   watcherFrame>>

\* nce.cpp:26  if (Halt) break;
WatcherPollHalt(t) ==
    /\ pcW[t] = "poll"
    /\ SetPcW(t, IF Halt THEN "tail" ELSE "surf")
    /\ UNCHANGED <<mtxVars, Halt, ctxState, status, procStatus, signals, svc, invoked, returned, herr,
                   watcherFrame>>

\* nce.cpp:28  if (!Surface) continue;
WatcherPollSurface(t) ==
    /\ pcW[t] = "surf"
    /\ SetPcW(t, IF Surface THEN "chk" ELSE "poll")
    /\ UNCHANGED <<mtxVars, Halt, ctxState, status, procStatus, signals, svc, invoked, returned, herr,
                   watcherFrame>>

\* nce.cpp:31-32  state == WaitKernel: std::lock_guard jniGd(JniMtx) calls
\* lock() with its default group; otherwise the else-if on line 53 is next
WatcherCheckKernel(t) ==
    /\ pcW[t] = "chk"
    /\ IF ctxState[t] = "WaitKernel"
       THEN /\ MtxLockCall(WatcherId(t), DefaultGroup)
            /\ SetPcW(t, "lock")
            /\ invoked' = [invoked EXCEPT ![t] = <<>>]
            /\ returned' = [returned EXCEPT ![t] = FALSE]
       ELSE /\ SetPcW(t, "chk2")
            /\ UNCHANGED <<mtxVars, invoked, returned>>
    /\ UNCHANGED <<Halt, ctxState, status, procStatus, signals, svc, herr, watcherFrame>>

\* GroupMutex::lock while the watcher waits for JniMtx
WatcherAnnounce(t) ==
    /\ pcW[t] \in {"lock", "klock"}
    /\ MtxAnnounce(WatcherId(t))
    /\ UNCHANGED <<nceVars>>

WatcherTake(t) ==
    /\ pcW[t] \in {"lock", "klock"}
    /\ MtxTake(WatcherId(t))
    /\ UNCHANGED <<nceVars>>

\* nce.cpp:32  lock() returns
WatcherLock(t) ==
    /\ pcW[t] = "lock"
    /\ MtxAcquire(WatcherId(t))
    /\ SetPcW(t, "lHalt")
    /\ UNCHANGED <<Halt, ctxState, status, procStatus, signals, svc, invoked, returned, herr, watcherFrame>>

\* the break on Halt leaves the section without releasing JniMtx
WatcherLockedHaltKeepsLock(t) ==
    /\ pcW[t] = "lHalt"
    /\ SetPcW(t, IF Halt THEN "tail" ELSE "lSurf")
    /\ UNCHANGED <<mtxVars, Halt, ctxState, status, procStatus, signals, svc, invoked, returned, herr, watcherFrame>>

\* nce.cpp:34  if (Halt) break;  (leaving the scope releases jniGd)
WatcherLockedHalt(t) ==
    /\ pcW[t] = "lHalt"
    /\ IF Halt
       THEN MtxUnlock(WatcherId(t)) /\ SetPcW(t, "tail")
       ELSE SetPcW(t, "lSurf") /\ UNCHANGED mtxVars
    /\ UNCHANGED <<Halt, ctxState, status, procStatus, signals, svc, invoked, returned, herr, watcherFrame>>

\* the check of Surface inside the section is missing
WatcherLockedSurfaceIgnored(t) ==
    /\ pcW[t] = "lSurf"
    /\ SetPcW(t, "rd")
    /\ UNCHANGED <<mtxVars, Halt, ctxState, status, procStatus, signals, svc, invoked, returned, herr, watcherFrame>>

\* nce.cpp:36  if (!Surface) continue;  (leaving the scope releases jniGd)
WatcherLockedSurface(t) ==
    /\ pcW[t] = "lSurf"
    /\ IF Surface
       THEN SetPcW(t, "rd") /\ UNCHANGED mtxVars
       ELSE MtxUnlock(WatcherId(t)) /\ SetPcW(t, "poll")
    /\ UNCHANGED <<Halt, ctxState, status, procStatus, signals, svc, invoked, returned, herr, watcherFrame>>

\* nce.cpp:39  const u16 svc = static_cast<const u16>(state.ctx->commandId)
WatcherReadSvc(t) ==
    /\ pcW[t] = "rd"
    /\ svc' = [svc EXCEPT ![t] = commandId[t] % 65536]
    /\ SetPcW(t, "call")
    /\ UNCHANGED <<mtxVars, Halt, ctxState, status, procStatus, signals, invoked, returned, herr, watcherFrame>>

\* a missing table entry is skipped and the loop goes on
WatcherDispatchSkipsMissing(t) ==
    /\ pcW[t] = "call"
    /\ IF svc[t] \in Implemented
       THEN /\ invoked' = [invoked EXCEPT ![t] = Append(@, svc[t])]
            /\ SetPcW(t, "handler")
       ELSE /\ SetPcW(t, "rearm")
            /\ UNCHANGED invoked
    /\ UNCHANGED <<mtxVars, herr, Halt, ctxState, status, procStatus, signals, svc, returned, watcherFrame>>

\* nce.cpp:42-50  the table entry is invoked, or "Unimplemented SVC" is thrown,
\* wrapped with the call number and caught on line 61 (jniGd is released)
WatcherDispatch(t) ==
    /\ pcW[t] = "call"
    /\ IF svc[t] \in Implemented
       THEN /\ invoked' = [invoked EXCEPT ![t] = Append(@, svc[t])]
            /\ SetPcW(t, "handler")
            /\ UNCHANGED <<mtxVars, herr>>
       ELSE /\ herr' = [herr EXCEPT ![t] = Wrapped(Unimplemented(svc[t]), svc[t])]
            /\ MtxUnlock(WatcherId(t))
            /\ SetPcW(t, "tail")
            /\ UNCHANGED invoked
    /\ UNCHANGED <<Halt, ctxState, status, procStatus, signals, svc, returned, watcherFrame>>

\* nce.cpp:44  the handler returns normally
WatcherHandlerReturn(t) ==
    /\ pcW[t] = "handler"
    /\ returned' = [returned EXCEPT ![t] = TRUE]
    /\ SetPcW(t, "rearm")
    /\ UNCHANGED <<mtxVars, Halt, ctxState, status, procStatus, signals, svc, invoked, herr, watcherFrame>>

\* the exception of a handler is swallowed inside the loop
WatcherHandlerThrowRearms(t) ==
    /\ pcW[t] = "handler"
    /\ herr' = [herr EXCEPT ![t] = Wrapped(HandlerError(svc[t]), svc[t])]
    /\ SetPcW(t, "rearm")
    /\ UNCHANGED <<mtxVars, Halt, ctxState, status, procStatus, signals, svc, invoked, returned, watcherFrame>>

\* nce.cpp:44,48-49,61  the handler throws: wrapped with the call number,
\* caught outside the loop (jniGd is released), line 52 is skipped
WatcherHandlerThrow(t) ==
    /\ pcW[t] = "handler"
    /\ herr' = [herr EXCEPT ![t] = Wrapped(HandlerError(svc[t]), svc[t])]
    /\ MtxUnlock(WatcherId(t))
    /\ SetPcW(t, "tail")
    /\ UNCHANGED <<Halt, ctxState, status, procStatus, signals, svc, invoked, returned, watcherFrame>>

\* nce.cpp:52  state.ctx->state = ThreadState::WaitRun, then jniGd is released
WatcherRearm(t) ==
    /\ pcW[t] = "rearm"
    /\ ctxState' = [ctxState EXCEPT ![t] = "WaitRun"]
    /\ MtxUnlock(WatcherId(t))
    /\ SetPcW(t, "poll")
    /\ UNCHANGED <<Halt, status, procStatus, signals, svc, invoked, returned, herr, watcherFrame>>

\* nce.cpp:53  else if (state.ctx->state == ThreadState::GuestCrash)
WatcherCheckCrash(t) ==
    /\ pcW[t] = "chk2"
    /\ SetPcW(t, IF ctxState[t] = "GuestCrash" THEN "crash" ELSE "poll")
    /\ UNCHANGED <<mtxVars, Halt, ctxState, status, procStatus, signals, svc, invoked, returned, herr,
                   watcherFrame>>

\* the break on line 58 is missing
WatcherCrashContinues(t) ==
    /\ pcW[t] = "crash"
    /\ ctxState' = [ctxState EXCEPT ![t] = "WaitRun"]
    /\ SetPcW(t, "poll")
    /\ UNCHANGED <<mtxVars, Halt, status, procStatus, signals, svc, invoked, returned, herr, watcherFrame>>

\* nce.cpp:54-58  log, trace, state = WaitRun, break
WatcherCrash(t) ==
    /\ pcW[t] = "crash"
    /\ ctxState' = [ctxState EXCEPT ![t] = "WaitRun"]
    /\ SetPcW(t, "tail")
    /\ UNCHANGED <<mtxVars, Halt, status, procStatus, signals, svc, invoked, returned, herr, watcherFrame>>

\* the shutdown section is taken through the default group of lock()
WatcherTailLocksDefault(t) ==
    /\ pcW[t] = "tail"
    /\ IF Halt
       THEN SetPcW(t, "done") /\ UNCHANGED mtxVars
       ELSE IF t = PrimaryPid
            THEN MtxLockCall(WatcherId(t), DefaultGroup) /\ SetPcW(t, "klock")
            ELSE SetPcW(t, "kill2") /\ UNCHANGED mtxVars
    /\ UNCHANGED <<Halt, ctxState, status, procStatus, signals, svc, invoked, returned, herr, watcherFrame>>

\* nce.cpp:67-69,75  if (!Halt): the primary thread's watcher calls
\* JniMtx.lock(Group2), any other goes on to KillThread
WatcherTail(t) ==
    /\ pcW[t] = "tail"
    /\ IF Halt
       THEN SetPcW(t, "done") /\ UNCHANGED mtxVars
       ELSE IF t = PrimaryPid
            THEN MtxLockCall(WatcherId(t), "Group2") /\ SetPcW(t, "klock")
            ELSE SetPcW(t, "kill2") /\ UNCHANGED mtxVars
    /\ UNCHANGED <<Halt, ctxState, status, procStatus, signals, svc, invoked, returned, herr, watcherFrame>>

\* nce.cpp:69  JniMtx.lock(GroupMutex::Group::Group2) returns
WatcherKillLock(t) ==
    /\ pcW[t] = "klock"
    /\ MtxAcquire(WatcherId(t))
    /\ SetPcW(t, "kill")
    /\ UNCHANGED <<Halt, ctxState, status, procStatus, signals, svc, invoked, returned, herr, watcherFrame>>

\* nce.cpp:71-72  state.os->KillThread(thread); Halt = true;
WatcherKillPrimary(t) ==
    /\ pcW[t] = "kill"
    /\ KillThread(t)
    /\ Halt' = TRUE
    /\ SetPcW(t, "kunlock")
    /\ UNCHANGED <<mtxVars, ctxState, svc, invoked, returned, herr, watcherFrame>>

\* nce.cpp:74  JniMtx.unlock()
WatcherKillUnlock(t) ==
    /\ pcW[t] = "kunlock"
    /\ MtxUnlock(WatcherId(t))
    /\ SetPcW(t, "done")
    /\ UNCHANGED <<Halt, ctxState, status, procStatus, signals, svc, invoked, returned, herr, watcherFrame>>

\* nce.cpp:76  state.os->KillThread(thread) for a thread that is not the primary
WatcherKillOther(t) ==
    /\ pcW[t] = "kill2"
    /\ KillThread(t)
    /\ SetPcW(t, "done")
    /\ UNCHANGED <<mtxVars, Halt, ctxState, svc, invoked, returned, herr, watcherFrame>>

Watcher(t) ==
    \/ WatcherPollHalt(t)
    \/ WatcherPollSurface(t)
    \/ WatcherCheckKernel(t)
    \/ WatcherAnnounce(t)
    \/ WatcherTake(t)
    \/ WatcherLock(t)
    \/ WatcherLockedHalt(t)
    \/ WatcherLockedSurface(t)
    \/ WatcherReadSvc(t)
    \/ WatcherDispatch(t)
    \/ WatcherHandlerReturn(t)
    \/ WatcherHandlerThrow(t)
    \/ WatcherRearm(t)
    \/ WatcherCheckCrash(t)
    \/ WatcherCrash(t)
    \/ WatcherTail(t)
    \/ WatcherKillLock(t)
    \/ WatcherKillPrimary(t)
    \/ WatcherKillUnlock(t)
    \/ WatcherKillOther(t)

\* -------------------------------------------------------- NCE::Execute
renderFrame == <<Surface, ctxVars, guestVars, threadVars, watchVars, injVars, prioVars, patchVars, loadVars>>

\* nce.cpp:91  std::lock_guard guard(JniMtx): lock() with its default group
RenderLockCall ==
    /\ pcR = "top"
    /\ MtxLockCall(RenderId, DefaultGroup)
    /\ pcR' = "lock"
    /\ UNCHANGED <<Halt, renderFrame>>

RenderAnnounce ==
    /\ pcR \in {"lock", "klock"}
    /\ MtxAnnounce(RenderId)
    /\ UNCHANGED nceVars

RenderTake ==
    /\ pcR \in {"lock", "klock"}
    /\ MtxTake(RenderId)
    /\ UNCHANGED nceVars

RenderLock ==
    /\ pcR = "lock"
    /\ MtxAcquire(RenderId)
    /\ pcR' = "chk"
    /\ UNCHANGED <<Halt, renderFrame>>

\* nce.cpp:93-94  if (Halt) break;  (guard is released)
RenderCheckHalt ==
    /\ pcR = "chk"
    /\ IF Halt
       THEN MtxUnlock(RenderId) /\ pcR' = "tail"
       ELSE pcR' = "loop" /\ UNCHANGED mtxVars
    /\ UNCHANGED <<Halt, renderFrame>>

\* nce.cpp:96-97  state.gpu->Loop() returns; guard is released at the end of
\* the iteration
RenderLoopReturn ==
    /\ pcR = "loop"
    /\ MtxUnlock(RenderId)
    /\ pcR' = "top"
    /\ UNCHANGED <<Halt, renderFrame>>

\* nce.cpp:96,98-102  state.gpu->Loop() throws; guard is released, the
\* exception is logged
RenderLoopThrow ==
    /\ pcR = "loop"
    /\ MtxUnlock(RenderId)
    /\ pcR' = "tail"
    /\ UNCHANGED <<Halt, renderFrame>>

\* Execute returns after a frame threw without the shutdown section
RenderTailSkipsShutdown ==
    /\ pcR = "tail"
    /\ pcR' = "done"
    /\ UNCHANGED <<mtxVars, Halt, renderFrame>>

\* nce.cpp:104-105  if (!Halt) JniMtx.lock(GroupMutex::Group::Group2)
RenderTail ==
    /\ pcR = "tail"
    /\ IF Halt
       THEN pcR' = "done" /\ UNCHANGED mtxVars
       ELSE MtxLockCall(RenderId, "Group2") /\ pcR' = "klock"
    /\ UNCHANGED <<Halt, renderFrame>>

RenderHaltLock ==
    /\ pcR = "klock"
    /\ MtxAcquire(RenderId)
    /\ pcR' = "setHalt"
    /\ UNCHANGED <<Halt, renderFrame>>

\* nce.cpp:106  Halt = true
RenderSetHalt ==
    /\ pcR = "setHalt"
    /\ Halt' = TRUE
    /\ pcR' = "kunlock"
    /\ UNCHANGED <<mtxVars, renderFrame>>

\* nce.cpp:107  JniMtx.unlock()
RenderHaltUnlock ==
    /\ pcR = "kunlock"
    /\ MtxUnlock(RenderId)
    /\ pcR' = "done"
    /\ UNCHANGED <<Halt, renderFrame>>

Render ==
    \/ RenderLockCall
    \/ RenderAnnounce
    \/ RenderTake
    \/ RenderLock
    \/ RenderCheckHalt
    \/ RenderLoopReturn
    \/ RenderLoopThrow
    \/ RenderTail
    \/ RenderHaltLock
    \/ RenderSetHalt
    \/ RenderHaltUnlock

\* ------------------------------------------- NCE::ExecuteFunction
injFrame == <<mtxVars, Halt, Surface, tpidrroEl0, guestVars, threadVars, watchVars, pcR, prioVars, patchVars, loadVars>>

\* nce.cpp:132-134 (overload 1, the thread is given) and nce.cpp:136-142
\* (overload 2, which throws when the process is Exiting)
ExecuteFunction(ovl, t, f) ==
    /\ ipc \in {"idle", "done", "failed"}
    /\ iovl' = ovl
    /\ itgt' = t
    /\ funcRegs' = f
    /\ ipc' = IF ovl = 2 /\ procStatus = "Exiting" THEN "failed" ELSE "cmd"
    /\ UNCHANGED <<ctxState, commandId, registers, isaved, ipre, injFrame>>

\* nce.cpp:118  ctx->commandId = static_cast<u32>(call)
InjectCommand(call) ==
    /\ ipc = "cmd"
    /\ commandId' = [commandId EXCEPT ![itgt] = call]
    /\ ipc' = "snap"
    /\ UNCHANGED <<ctxState, registers, iovl, itgt, isaved, funcRegs, ipre, injFrame>>

\* nce.cpp:119  Registers registers = ctx->registers
InjectSnapshot ==
    /\ ipc = "snap"
    /\ isaved' = registers[itgt]
    /\ ipc' = "wait1"
    /\ UNCHANGED <<ctxState, commandId, registers, iovl, itgt, funcRegs, ipre, injFrame>>

\* nce.cpp:121  while (state != WaitInit && state != WaitKernel);
InjectWaitParked ==
    /\ ipc = "wait1"
    /\ ctxState[itgt] \in {"WaitInit", "WaitKernel"}
    /\ ipc' = "regs"
    /\ UNCHANGED <<ctxState, commandId, registers, iovl, itgt, isaved, funcRegs, ipre, injFrame>>

\* nce.cpp:123  ctx->registers = funcRegs
InjectRegisters ==
    /\ ipc = "regs"
    /\ ipre' = registers[itgt]
    /\ registers' = [registers EXCEPT ![itgt] = funcRegs]
    /\ ipc' = "state"
    /\ UNCHANGED <<ctxState, commandId, iovl, itgt, isaved, funcRegs, injFrame>>

\* nce.cpp:124  ctx->state = ThreadState::WaitFunc
InjectWaitFunc ==
    /\ ipc = "state"
    /\ ctxState' = [ctxState EXCEPT ![itgt] = "WaitFunc"]
    /\ ipc' = "wait2"
    /\ UNCHANGED <<commandId, registers, iovl, itgt, isaved, funcRegs, ipre, injFrame>>

\* nce.cpp:126  while (state != WaitInit && state != WaitKernel);
InjectWaitDone ==
    /\ ipc = "wait2"
    /\ ctxState[itgt] \in {"WaitInit", "WaitKernel"}
    /\ ipc' = "harvest"
    /\ UNCHANGED <<ctxState, commandId, registers, iovl, itgt, isaved, funcRegs, ipre, injFrame>>

\* nce.cpp:128  funcRegs = ctx->registers
InjectHarvest ==
    /\ ipc = "harvest"
    /\ funcRegs' = registers[itgt]
    /\ ipc' = "restore"
    /\ UNCHANGED <<ctxState, commandId, registers, iovl, itgt, isaved, ipre, injFrame>>

\* nce.cpp:129  ctx->registers = registers
InjectRestore ==
    /\ ipc = "restore"
    /\ registers' = [registers EXCEPT ![itgt] = isaved]
    /\ ipc' = "done"
    /\ UNCHANGED <<ctxState, commandId, iovl, itgt, isaved, funcRegs, ipre, injFrame>>

\* ------------------------------------------------- ARM64 instruction words
\* A 32-bit instruction word is held as its two halves
\* <<bits 31..16, bits 15..0>>; a bit-field struct is packed into them.

\* bits lo .. lo+width-1 of the word w
BitField(w, lo, width) ==
    IF lo >= 16 THEN (w[1] \div 2^(lo - 16)) % 2^width
    ELSE IF lo + width <= 16 THEN (w[2] \div 2^lo) % 2^width
    ELSE (w[2] \div 2^lo) + (w[1] % 2^(lo + width - 16)) * 2^(16 - lo)

\* the word holding the value v (below 2^26) at bit lo, bits above 31 dropped
Shl(v, lo) ==
    IF lo >= 16 THEN <<(v * 2^(lo - 16)) % 65536, 0>>
    ELSE <<(v \div 2^(16 - lo)) % 65536, (v % 2^(16 - lo)) * 2^lo>>

\* the union of fields that do not overlap
BitOr(a, b) == <<a[1] + b[1], a[2] + b[2]>>

\* regs::X and regs::W number the registers 0..30
regs == [X0 |-> 0, W1 |-> 1]

\* instr::Svc {sig0 : 5 = 0x1; value : 16; sig1 : 11 = 0x6A0}
Svc(value) == BitOr(BitOr(Shl(1, 0), Shl(value % 2^16, 5)), Shl(\h6A0, 21))
SvcVerify(w) == BitField(w, 0, 5) = 1 /\ BitField(w, 21, 11) = \h6A0
SvcValue(w) == BitField(w, 5, 16)

\* instr::Mrs {destReg : 5; srcReg : 15; sig : 12 = 0xD53}
Mrs(srcReg, destReg) == BitOr(BitOr(Shl(destReg % 32, 0), Shl(srcReg % 2^15, 5)), Shl(\hD53, 20))
MrsVerify(w) == BitField(w, 20, 12) = \hD53
MrsSrcReg(w) == BitField(w, 5, 15)
MrsDestReg(w) == BitField(w, 0, 5)

\* instr::B {offset : 26 (signed, in words); sig : 6 = 0x5}, built from a
\* byte offset: offset = static_cast<i32>(byteOffset / 4)
B(byteOffset) == BitOr(Shl(TruncDiv(byteOffset, 4) % 2^26, 0), Shl(\h5, 26))

\* instr::BL {offset : 26; sig : 6 = 0x25}
BL(byteOffset) == BitOr(Shl(TruncDiv(byteOffset, 4) % 2^26, 0), Shl(\h25, 26))

\* B::Offset(), BL::Offset(): the signed field, in bytes
BranchOffset(w) ==
    LET imm == BitField(w, 0, 26)
    IN  4 * (IF imm >= 2^25 THEN imm - 2^26 ELSE imm)

\* instr::Movz {destReg : 5; imm16 : 16; hw : 2; sig : 8 = 0xA5; sf : 1};
\* sf is 1 for an X register and 0 for a W register; shift is 0, 16, 32 or 48
Movz(sf, destReg, imm16, shift) ==
    BitOr(BitOr(BitOr(Shl(destReg % 32, 0), Shl(imm16 % 2^16, 5)),
                BitOr(Shl((shift \div 16) % 4, 21), Shl(\hA5, 23))), Shl(sf, 31))

\* instr::Movk {destReg : 5; imm16 : 16; hw : 2; sig : 8 = 0xE5; sf : 1}
Movk(sf, destReg, imm16, shift) ==
    BitOr(BitOr(BitOr(Shl(destReg % 32, 0), Shl(imm16 % 2^16, 5)),
                BitOr(Shl((shift \div 16) % 4, 21), Shl(\hE5, 23))), Shl(sf, 31))

\* instr::Mov(regs::X destReg, regs::X srcReg): MOV Xd, Xm = 0xAA0003E0 | m << 16 | d
Mov(destReg, srcReg) == BitOr(<<\hAA00, \h03E0>>, BitOr(Shl(destReg % 32, 0), Shl(srcReg % 32, 16)))

\* the 16-bit quarter h (0..3) of a value below 2^31
Quarter(value, h) == IF h = 0 THEN value % 65536 ELSE IF h = 1 THEN (value \div 65536) % 65536 ELSE 0

\* instr::MoveU64Reg(destReg, value): MOVZ of the low quarter, then a MOVK
\* for each higher quarter that is not zero
MoveU64Reg(destReg, value) ==
    <<Movz(1, destReg, Quarter(value, 0), 0)>>
        \o (IF Quarter(value, 1) # 0 THEN <<Movk(1, destReg, Quarter(value, 1), 16)>> ELSE <<>>)
        \o (IF Quarter(value, 2) # 0 THEN <<Movk(1, destReg, Quarter(value, 2), 32)>> ELSE <<>>)
        \o (IF Quarter(value, 3) # 0 THEN <<Movk(1, destReg, Quarter(value, 3), 48)>> ELSE <<>>)

\* instr::MoveU32Reg(destReg, value): MOVZ of the low half, MOVK of the high
\* half when it is not zero
MoveU32Reg(destReg, value) ==
    <<Movz(1, destReg, Quarter(value, 0), 0)>>
        \o (IF Quarter(value, 1) # 0 THEN <<Movk(1, destReg, Quarter(value, 1), 16)>> ELSE <<>>)

\* What a MOVZ/MOVK sequence leaves in its register, as the four quarters:
\* MOVZ clears the register and sets one quarter, MOVK sets one quarter.
RECURSIVE LoadedQuarters(_)
LoadedQuarters(seq) ==
    IF seq = <<>> THEN [h \in 0 .. 3 |-> 0]
    ELSE LET w == seq[Len(seq)]
             before == LoadedQuarters(SubSeq(seq, 1, Len(seq) - 1))
             hw == BitField(w, 21, 2)
             imm16 == BitField(w, 5, 16)
         IN  IF BitField(w, 23, 8) = \hA5 THEN [h \in 0 .. 3 |-> IF h = hw THEN imm16 ELSE 0]
             ELSE IF BitField(w, 23, 8) = \hE5 THEN [before EXCEPT ![hw] = imm16]
             ELSE before

\* ---------------------------------------------------------- NCE::PatchCode
\* nce.cpp:212-215  the system register identifiers of MRS
TpidrroEl0 == \h5E83
CntfrqEl0 == \h5F00
CntpctEl0 == \h5F01
CntvctEl0 == \h5F02
\* nce.cpp:216  the clock frequency of the Tegra X1
TegraX1Freq == 19200000

\* guest::SaveCtxSize, LoadCtxSize, SvcHandlerSize, RescaleClockSize: the
\* byte sizes of the guest routines (multiples of the word size)
guest == [SaveCtxSize |-> 8, LoadCtxSize |-> 12, SvcHandlerSize |-> 16, RescaleClockSize |-> 8]

\* the words of the guest routine number r, size bytes long
GuestRoutine(r, size) == [k \in 1 .. size \div 4 |-> <<r, k>>]

\* load-context is copied before save-context
PrologueLoadFirst ==
    GuestRoutine(2, guest.LoadCtxSize) \o GuestRoutine(1, guest.SaveCtxSize)
        \o GuestRoutine(3, guest.SvcHandlerSize)

\* nce.cpp:222-231  the patch buffer on entry to the loop
Prologue ==
    GuestRoutine(1, guest.SaveCtxSize) \o GuestRoutine(2, guest.LoadCtxSize)
        \o GuestRoutine(3, guest.SvcHandlerSize)

\* a word that matches nothing is overwritten with a NOP
UntouchedAsNop(w, off) == [site |-> <<\hD503, \h201F>>, words |-> <<>>, offset |-> off]

\* What one iteration does with a word it leaves alone
Untouched(w, off) == [site |-> w, words |-> <<>>, offset |-> off]

\* the branch to load-context is pushed before the branch to the handler
SvcSiteLoadsFirst(w, off, pOff, base, index) ==
    LET bJunc == B(off)
        strLr == <<\hF81F, \h0FFE>>
        o1 == off + 4
        bSvCtx == BL(pOff - o1)
        o2 == o1 + 4
        movPc == MoveU64Reg(regs.X0, base + index)
        o3 == o2 + 4 * Len(movPc)
        movCmd == Movz(0, regs.W1, SvcValue(w), 0)
        o4 == o3 + 4
        bSvcHandler == BL((pOff + guest.SaveCtxSize + guest.LoadCtxSize) - o4)
        o5 == o4 + 4
        bLdCtx == BL((pOff + guest.SaveCtxSize) - o5)
        o6 == o5 + 4
        ldrLr == <<\hF841, \h07FE>>
        o7 == o6 + 4
        bret == B(-o7 + 4)
        o8 == o7 + 4
    IN  [site |-> bJunc,
         words |-> <<strLr, bSvCtx>> \o movPc \o <<movCmd, bLdCtx, bSvcHandler, ldrLr, bret>>,
         offset |-> o8]

\* nce.cpp:241-271  a supervisor call: the branch written at the site, the
\* words pushed to the patch, and the offset after them
SvcSite(w, off, pOff, base, index) ==
    LET bJunc == B(off)
        strLr == <<\hF81F, \h0FFE>>
        o1 == off + 4
        bSvCtx == BL(pOff - o1)
        o2 == o1 + 4
        movPc == MoveU64Reg(regs.X0, base + index)
        o3 == o2 + 4 * Len(movPc)
        movCmd == Movz(0, regs.W1, SvcValue(w), 0)
        o4 == o3 + 4
        bSvcHandler == BL((pOff + guest.SaveCtxSize + guest.LoadCtxSize) - o4)
        o5 == o4 + 4
        bLdCtx == BL((pOff + guest.SaveCtxSize) - o5)
        o6 == o5 + 4
        ldrLr == <<\hF841, \h07FE>>
        o7 == o6 + 4
        bret == B(-o7 + 4)
        o8 == o7 + 4
    IN  [site |-> bJunc,
         words |-> <<strLr, bSvCtx>> \o movPc \o <<movCmd, bSvcHandler, bLdCtx, ldrLr, bret>>,
         offset |-> o8]

\* X0 is spilled but not reloaded
TpidrroSiteNoReload(w, off) ==
    LET bJunc == B(off)
        spill == MrsDestReg(w) # regs.X0
        strX0 == IF spill THEN <<(<<\hF81F, \h0FE0>>)>> ELSE <<>>
        mrsX0 == <<\hD53B, \hD040>>
        ldrTls == <<\hF940, \h8000>>
        movXn == IF spill THEN <<Mov(MrsDestReg(w), regs.X0)>> ELSE <<>>
        o1 == off + 4 * Len(strX0) + 4 + 4 + 4 * Len(movXn)
        bret == B(-o1 + 4)
    IN  [site |-> bJunc,
         words |-> strX0 \o <<mrsX0, ldrTls>> \o movXn \o <<bret>>,
         offset |-> o1 + 4]

\* nce.cpp:273-304  a read of TPIDRRO_EL0
TpidrroSite(w, off) ==
    LET bJunc == B(off)
        spill == MrsDestReg(w) # regs.X0
        strX0 == IF spill THEN <<(<<\hF81F, \h0FE0>>)>> ELSE <<>>
        mrsX0 == <<\hD53B, \hD040>>
        ldrTls == <<\hF940, \h8000>>
        movXn == IF spill THEN <<Mov(MrsDestReg(w), regs.X0)>> ELSE <<>>
        ldrX0 == IF spill THEN <<(<<\hF841, \h07E0>>)>> ELSE <<>>
        o1 == off + 4 * Len(strX0) + 4 + 4 + 4 * Len(movXn) + 4 * Len(ldrX0)
        bret == B(-o1 + 4)
    IN  [site |-> bJunc,
         words |-> strX0 \o <<mrsX0, ldrTls>> \o movXn \o ldrX0 \o <<bret>>,
         offset |-> o1 + 4]

\* the ADD SP word is pushed but not counted in the offset
CntpctSiteMiscounts(w, off) ==
    LET bJunc == B(off)
        o1 == off + guest.RescaleClockSize
        ldr == BitOr(<<\hF940, \h03E0>>, Shl(MrsDestReg(w), 0))
        addSp == <<\h9100, \h83FF>>
        o2 == o1 + 4
        bret == B(-o2 + 4)
    IN  [site |-> bJunc,
         words |-> GuestRoutine(4, guest.RescaleClockSize) \o <<ldr, addSp, bret>>,
         offset |-> o2 + 4]

\* nce.cpp:306-323  a read of CNTPCT_EL0 on a host of another frequency
CntpctSite(w, off) ==
    LET bJunc == B(off)
        o1 == off + guest.RescaleClockSize
        ldr == BitOr(<<\hF940, \h03E0>>, Shl(MrsDestReg(w), 0))
        addSp == <<\h9100, \h83FF>>
        o2 == o1 + 4 + 4
        bret == B(-o2 + 4)
    IN  [site |-> bJunc,
         words |-> GuestRoutine(4, guest.RescaleClockSize) \o <<ldr, addSp, bret>>,
         offset |-> o2 + 4]

\* the reference frequency is loaded into X0 whatever the destination is
CntfrqSiteX0(w, off) ==
    LET bJunc == B(off)
        movFreq == MoveU32Reg(regs.X0, TegraX1Freq)
        o1 == off + 4 * Len(movFreq)
        bret == B(-o1 + 4)
    IN  [site |-> bJunc, words |-> movFreq \o <<bret>>, offset |-> o1 + 4]

\* nce.cpp:324-334  a read of CNTFRQ_EL0 on a host of another frequency
CntfrqSite(w, off) ==
    LET bJunc == B(off)
        movFreq == MoveU32Reg(MrsDestReg(w), TegraX1Freq)
        o1 == off + 4 * Len(movFreq)
        bret == B(-o1 + 4)
    IN  [site |-> bJunc, words |-> movFreq \o <<bret>>, offset |-> o1 + 4]

\* the rewritten read always targets X0
CntpctInPlaceX0(w, off) ==
    [site |-> Mrs(CntvctEl0, regs.X0), words |-> <<>>, offset |-> off]

\* nce.cpp:337-340  a read of CNTPCT_EL0 on a host of the same frequency
CntpctInPlace(w, off) ==
    [site |-> Mrs(CntvctEl0, MrsDestReg(w)), words |-> <<>>, offset |-> off]

\* nce.cpp:241-342  the body of the loop for the word w at address
PatchSite(w, off, pOff, base, index, freq) ==
    IF SvcVerify(w) THEN SvcSite(w, off, pOff, base, index)
    ELSE IF MrsVerify(w) THEN
        IF MrsSrcReg(w) = TpidrroEl0 THEN TpidrroSite(w, off)
        ELSE IF freq # TegraX1Freq THEN
            IF MrsSrcReg(w) = CntpctEl0 THEN CntpctSite(w, off)
            ELSE IF MrsSrcReg(w) = CntfrqEl0 THEN CntfrqSite(w, off)
            ELSE Untouched(w, off)
        ELSE IF MrsSrcReg(w) = CntpctEl0 THEN CntpctInPlace(w, off)
             ELSE Untouched(w, off)
    ELSE Untouched(w, off)

\* what PatchCode and LoadExecutable leave alone
patchFrame ==
    <<mtxVars, Halt, Surface, ctxVars, guestVars, threadVars, watchVars, pcR, injVars, prioVars>>

\* nce.cpp:211-235  PatchCode is entered with the stream c: the prologue is
\* copied, the offsets are set, and the static frequency is read from the
\* host register (hostFrequency) if it was not read before
PatchCodeEnter(c, base, off, hostFrequency) ==
    /\ code' = c
    /\ entry' = [code |-> c, offset |-> off]
    /\ baseAddress' = base
    /\ patchOffset' = off
    /\ patch' = Prologue
    /\ offset' = off + guest.SaveCtxSize + guest.LoadCtxSize + guest.SvcHandlerSize
    /\ frequency' = IF frequency = 0 THEN hostFrequency ELSE frequency
    /\ address' = 0
    /\ ppc' = "loop"

\* the running offset is not stepped back by the width of the visited word
PatchIterKeepsOffset ==
    /\ ppc = "loop"
    /\ address < Len(code)
    /\ LET r == PatchSite(code[address + 1], offset, patchOffset, baseAddress, address, frequency)
       IN  /\ code' = [code EXCEPT ![address + 1] = r.site]
           /\ patch' = patch \o r.words
           /\ offset' = r.offset
    /\ patchOffset' = patchOffset - 4
    /\ address' = address + 1
    /\ UNCHANGED <<entry, baseAddress, frequency, ppc, loadVars, patchFrame>>

\* the offset of the prologue is not stepped back by the width of the visited word
PatchIterKeepsPatchOffset ==
    /\ ppc = "loop"
    /\ address < Len(code)
    /\ LET r == PatchSite(code[address + 1], offset, patchOffset, baseAddress, address, frequency)
       IN  /\ code' = [code EXCEPT ![address + 1] = r.site]
           /\ patch' = patch \o r.words
           /\ offset' = r.offset - 4
    /\ patchOffset' = patchOffset
    /\ address' = address + 1
    /\ UNCHANGED <<entry, baseAddress, frequency, ppc, loadVars, patchFrame>>

\* nce.cpp:237-346  one iteration of the loop
PatchIter ==
    /\ ppc = "loop"
    /\ address < Len(code)
    /\ LET r == PatchSite(code[address + 1], offset, patchOffset, baseAddress, address, frequency)
       IN  /\ code' = [code EXCEPT ![address + 1] = r.site]
           /\ patch' = patch \o r.words
           /\ offset' = r.offset - 4
    /\ patchOffset' = patchOffset - 4
    /\ address' = address + 1
    /\ UNCHANGED <<entry, baseAddress, frequency, ppc, loadVars, patchFrame>>

\* nce.cpp:237, 347  the loop ends and the patch is returned
PatchReturn ==
    /\ ppc = "loop"
    /\ address = Len(code)
    /\ ppc' = "done"
    /\ UNCHANGED <<code, entry, baseAddress, offset, patchOffset, address, patch, frequency,
                   loadVars, patchFrame>>

\* common.h:120-122  util::PageAligned, with the page size of the host
PAGE_SIZE == 4096
PageAligned(a) == a % PAGE_SIZE = 0

\* common.h:29
BaseAddress == 134217728

\* loader.cpp:11
patchRegionSize == PAGE_SIZE * 16

\* The instruction words the streams are made of: two supervisor calls,
\* reads of the system registers PatchCode knows and of one it does not,
\* and a NOP.
MaxCode == 3
Nop == <<\hD503, \h201F>>
Instructions ==
    {Svc(\h7), Svc(\hFFFF), Mrs(TpidrroEl0, 0), Mrs(TpidrroEl0, 5), Mrs(CntpctEl0, 3),
     Mrs(CntfrqEl0, 2), Mrs(CntvctEl0, 1), Nop}
Streams == UNION {[1 .. n -> Instructions] : n \in 0 .. MaxCode}
Bases == {BaseAddress, BaseAddress + 2 * patchRegionSize}
HostFrequencies == {TegraX1Freq, 26000000}

\* A caller patches a stream placed at the base address, the patch region
\* lying patchRegionSize below it (as loader.cpp:27 calls it).
PatchCodeCall(c, base, hostFrequency) ==
    /\ ppc = "idle"
    /\ lpc = "idle"
    /\ PatchCodeEnter(c, base, -patchRegionSize, hostFrequency)
    /\ UNCHANGED <<loadVars, patchFrame>>

\* ------------------------------------------------- Loader::LoadExecutable
\* loader::Executable: the text section with its contents (as words), the
\* byte sizes of the read-only and data sections, the offsets, the bss size
NoExecutable ==
    [text |-> [contents |-> <<>>, offset |-> 0], ro |-> [size |-> 0, offset |-> 0],
     data |-> [size |-> 0, offset |-> 0], bssSize |-> 0]

\* a text section of one page: the words of head, then NOPs
PageOfText(head) == [k \in 1 .. PAGE_SIZE \div 4 |-> IF k <= Len(head) THEN head[k] ELSE Nop]

\* The executables loaded: two with every section page-aligned, and
\* others with one size or one offset off a page boundary.
AlignedExecutable ==
    [text |-> [contents |-> PageOfText(<<Svc(\h7), Mrs(CntfrqEl0, 2), Nop, Svc(\hFFFF)>>), offset |-> 0],
     ro |-> [size |-> PAGE_SIZE, offset |-> PAGE_SIZE],
     data |-> [size |-> PAGE_SIZE - 256, offset |-> 2 * PAGE_SIZE],
     bssSize |-> 256]
Executables ==
    {AlignedExecutable,
     [AlignedExecutable EXCEPT !.text.contents = PageOfText(<<Mrs(TpidrroEl0, 5), Mrs(CntpctEl0, 3)>>),
                               !.text.offset = PAGE_SIZE, !.ro.offset = 2 * PAGE_SIZE,
                               !.data.offset = 3 * PAGE_SIZE],
     [AlignedExecutable EXCEPT !.text.contents = <<Svc(\h7), Nop>>],
     [AlignedExecutable EXCEPT !.ro.size = PAGE_SIZE + 16],
     [AlignedExecutable EXCEPT !.bssSize = 0],
     [AlignedExecutable EXCEPT !.text.offset = 16],
     [AlignedExecutable EXCEPT !.ro.offset = PAGE_SIZE + 8],
     [AlignedExecutable EXCEPT !.data.offset = 2 * PAGE_SIZE + 4],
     [AlignedExecutable EXCEPT !.text.contents = <<Svc(\h7)>>, !.data.offset = 1]}
LoadOffsets == {0, 2 * patchRegionSize}

\* loader.cpp:12, 14
LoadBase == BaseAddress + loadOffset - patchRegionSize
ExecutableBase == LoadBase + patchRegionSize

\* only the sizes are checked, the offsets are not
LoadExecutableSizesOnly(exe, off, hostFrequency) ==
    LET textSize == 4 * Len(exe.text.contents)
        roSize == exe.ro.size
        dataSize == exe.data.size + exe.bssSize
    IN  /\ lpc = "idle"
        /\ ppc = "idle"
        /\ executable' = exe
        /\ loadOffset' = off
        /\ IF ~PageAligned(textSize) \/ ~PageAligned(roSize) \/ ~PageAligned(dataSize)
           THEN /\ lerr' = <<"LoadProcessData: Sections are not aligned with page size",
                             textSize, roSize, dataSize>>
                /\ lpc' = "failed"
                /\ code' = exe.text.contents
                /\ UNCHANGED <<entry, baseAddress, offset, patchOffset, address, patch, frequency, ppc>>
           ELSE /\ PatchCodeEnter(exe.text.contents, BaseAddress + off, -patchRegionSize, hostFrequency)
                /\ lpc' = "patch"
                /\ lerr' = <<>>
        /\ UNCHANGED <<mapped, written, patchFrame>>

\* loader.cpp:10-27  LoadExecutable up to the call of PatchCode: it throws
\* when a size or an offset is not page-aligned, otherwise PatchCode is
\* entered with the text contents
LoadExecutable(exe, off, hostFrequency) ==
    LET textSize == 4 * Len(exe.text.contents)
        roSize == exe.ro.size
        dataSize == exe.data.size + exe.bssSize
    IN  /\ lpc = "idle"
        /\ ppc = "idle"
        /\ executable' = exe
        /\ loadOffset' = off
        /\ IF ~PageAligned(textSize) \/ ~PageAligned(roSize) \/ ~PageAligned(dataSize)
           THEN /\ lerr' = <<"LoadProcessData: Sections are not aligned with page size",
                             textSize, roSize, dataSize>>
                /\ lpc' = "failed"
                /\ code' = exe.text.contents
                /\ UNCHANGED <<entry, baseAddress, offset, patchOffset, address, patch, frequency, ppc>>
           ELSE IF \/ ~PageAligned(exe.text.offset) \/ ~PageAligned(exe.ro.offset)
                   \/ ~PageAligned(exe.data.offset)
           THEN /\ lerr' = <<"LoadProcessData: Section offsets are not aligned with page size",
                             exe.text.offset, exe.ro.offset, exe.data.offset>>
                /\ lpc' = "failed"
                /\ code' = exe.text.contents
                /\ UNCHANGED <<entry, baseAddress, offset, patchOffset, address, patch, frequency, ppc>>
           ELSE /\ PatchCodeEnter(exe.text.contents, BaseAddress + off, -patchRegionSize, hostFrequency)
                /\ lpc' = "patch"
                /\ lerr' = <<>>
        /\ UNCHANGED <<mapped, written, patchFrame>>

\* loader.cpp:28-40  PatchCode returned: the four regions are mapped
LoadMap ==
    /\ lpc = "patch"
    /\ ppc = "done"
    /\ mapped' =
           <<[address |-> LoadBase, size |-> patchRegionSize, permission |-> "RWX"],
             [address |-> ExecutableBase + executable.text.offset, size |-> 4 * Len(code),
              permission |-> "R-X"],
             [address |-> ExecutableBase + executable.ro.offset, size |-> executable.ro.size,
              permission |-> "R--"],
             [address |-> ExecutableBase + executable.data.offset,
              size |-> executable.data.size + executable.bssSize, permission |-> "RW-"]>>
    /\ lpc' = "map"
    /\ UNCHANGED <<patchVars, executable, loadOffset, lerr, written, patchFrame>>

\* loader.cpp:42-47  the patch and the sections are written to guest memory
LoadWrite ==
    /\ lpc = "map"
    /\ written' =
           <<[address |-> LoadBase, size |-> 4 * Len(patch)],
             [address |-> ExecutableBase + executable.text.offset, size |-> 4 * Len(code)],
             [address |-> ExecutableBase + executable.ro.offset, size |-> executable.ro.size],
             [address |-> ExecutableBase + executable.data.offset, size |-> executable.data.size]>>
    /\ lpc' = "done"
    /\ UNCHANGED <<patchVars, executable, loadOffset, lerr, mapped, patchFrame>>

\* nce.cpp:237-347  the loop of PatchCode run to its end, for a stream that
\* begins with leading words for which nothing matches (each of them only
\* steps the two offsets back, nce.cpp:344-345) and goes on with the words
\* of st.code. PatchRange runs the iterations for the words lo + 1 .. hi of
\* st.code, one after the other, from the loop state st.
RECURSIVE PatchRange(_, _, _, _, _, _)
PatchRange(st, lo, hi, leading, base, freq) ==
    IF hi = lo THEN st
    ELSE IF hi = lo + 1
    THEN LET r == PatchSite(st.code[hi], st.offset, st.patchOffset, base, leading + lo, freq)
         IN  [code |-> [st.code EXCEPT ![hi] = r.site], patch |-> st.patch \o r.words,
              offset |-> r.offset - 4, patchOffset |-> st.patchOffset - 4,
              address |-> leading + hi]
    ELSE LET mid == (lo + hi) \div 2
             half == PatchRange(st, lo, mid, leading, base, freq)
         IN  IF half.address = leading + mid
             THEN PatchRange(half, mid, hi, leading, base, freq)
             ELSE half

\* The executables loaded in one step. The text is leading NOP words
\* followed by the words of contents: pages that begin with at most one
\* instruction of Instructions or with two out of a supervisor call and a
\* counter read, alone, behind one page or behind 128 MiB of
\* NOPs, at text offset 0 or one page; two pages of supervisor calls; and
\* one misaligned text.
WholeExecutables ==
    {[AlignedExecutable EXCEPT !.text = [leading |-> n, contents |-> PageOfText(head), offset |-> o],
                               !.ro.offset = o + 4 * n + PAGE_SIZE,
                               !.data.offset = o + 4 * n + 2 * PAGE_SIZE] :
         n \in {0, PAGE_SIZE \div 4, 2^25}, o \in {0, PAGE_SIZE},
         head \in UNION {[1 .. m -> Instructions] : m \in 0 .. 1}
                     \cup [1 .. 2 -> {Svc(\h7), Mrs(CntpctEl0, 3)}]}
    \cup {[AlignedExecutable EXCEPT !.text = [leading |-> 0, offset |-> 0,
                                              contents |-> [k \in 1 .. 2 * (PAGE_SIZE \div 4) |-> Svc(\h7)]],
                                    !.ro.offset = 2 * PAGE_SIZE, !.data.offset = 3 * PAGE_SIZE],
          [AlignedExecutable EXCEPT !.text = [leading |-> 3, offset |-> 0, contents |-> <<Svc(\h7)>>]]}

\* loader.cpp:10-47  LoadExecutable from its entry to its return, the call
\* of PatchCode (nce.cpp:211-347) included
LoadExecutableWhole(exe, hostFrequency) ==
    LET textSize == 4 * (exe.text.leading + Len(exe.text.contents))
        roSize == exe.ro.size
        dataSize == exe.data.size + exe.bssSize
        aligned == /\ PageAligned(textSize) /\ PageAligned(roSize) /\ PageAligned(dataSize)
                   /\ PageAligned(exe.text.offset) /\ PageAligned(exe.ro.offset)
                   /\ PageAligned(exe.data.offset)
        base == BaseAddress + 0 - patchRegionSize
        executableBase == base + patchRegionSize
        freq == IF frequency = 0 THEN hostFrequency ELSE frequency
        off0 == -patchRegionSize
        r == PatchRange([code |-> exe.text.contents, patch |-> Prologue,
                         offset |-> off0 + guest.SaveCtxSize + guest.LoadCtxSize + guest.SvcHandlerSize
                                        - 4 * exe.text.leading,
                         patchOffset |-> off0 - 4 * exe.text.leading,
                         address |-> exe.text.leading],
                        0, Len(exe.text.contents), exe.text.leading, executableBase, freq)
    IN  /\ lpc = "idle"
        /\ ppc = "idle"
        /\ executable' = exe
        /\ loadOffset' = 0
        /\ IF ~aligned
           THEN /\ lerr' = IF ~PageAligned(textSize) \/ ~PageAligned(roSize) \/ ~PageAligned(dataSize)
                           THEN <<"LoadProcessData: Sections are not aligned with page size",
                                  textSize, roSize, dataSize>>
                           ELSE <<"LoadProcessData: Section offsets are not aligned with page size",
                                  exe.text.offset, exe.ro.offset, exe.data.offset>>
                /\ lpc' = "failed"
                /\ code' = exe.text.contents
                /\ UNCHANGED <<entry, baseAddress, offset, patchOffset, address, patch, frequency,
                               ppc, mapped, written>>
           ELSE /\ entry' = [code |-> exe.text.contents, offset |-> off0]
                /\ baseAddress' = executableBase
                /\ frequency' = freq
                /\ code' = r.code
                /\ patch' = r.patch
                /\ offset' = r.offset
                /\ patchOffset' = r.patchOffset
                /\ address' = r.address
                /\ ppc' = "done"
                /\ mapped' =
                       <<[address |-> base, size |-> patchRegionSize, permission |-> "RWX"],
                         [address |-> executableBase + exe.text.offset, size |-> textSize,
                          permission |-> "R-X"],
                         [address |-> executableBase + exe.ro.offset, size |-> roSize,
                          permission |-> "R--"],
                         [address |-> executableBase + exe.data.offset, size |-> dataSize,
                          permission |-> "RW-"]>>
                /\ written' =
                       <<[address |-> base, size |-> 4 * Len(r.patch)],
                         [address |-> executableBase + exe.text.offset, size |-> textSize],
                         [address |-> executableBase + exe.ro.offset, size |-> roSize],
                         [address |-> executableBase + exe.data.offset, size |-> dataSize - exe.bssSize]>>
                /\ lerr' = <<>>
                /\ lpc' = "done"
        /\ UNCHANGED patchFrame

\* ------------------------------------------------------- specifications
\* After construction: the mutex is free, Halt is false, no Surface yet,
\* every Thread Context is zeroed (NotReady), every KThread is Created.
Init ==
    /\ MtxInit
    /\ Halt = FALSE
    /\ Surface = FALSE
    /\ ctxState = [t \in Threads |-> "NotReady"]
    /\ commandId = [t \in Threads |-> 0]
    /\ registers = [t \in Threads |-> 0]
    /\ tpidrroEl0 = [t \in Threads |-> FALSE]
    /\ gpc = [t \in Threads |-> "boot"]
    /\ gres = [t \in Threads |-> 0]
    /\ gcmd = [t \in Threads |-> 0]
    /\ status = [t \in Threads |-> "Created"]
    /\ procStatus = "Created"
    /\ spc = [t \in Threads |-> "idle"]
    /\ signals = [t \in Threads |-> 0]
    /\ pcW = [t \in Threads |-> "none"]
    /\ svc = [t \in Threads |-> 0]
    /\ invoked = [t \in Threads |-> <<>>]
    /\ returned = [t \in Threads |-> FALSE]
    /\ herr = [t \in Threads |-> <<>>]
    /\ pcR = "top"
    /\ ipc = "idle"
    /\ iovl = 1
    /\ itgt = PrimaryPid
    /\ isaved = 0
    /\ funcRegs = 0
    /\ ipre = 0
    /\ priority = [t \in Threads |-> SwitchPriority[2]]
    /\ linuxPriority = [t \in Threads |-> LinuxPriority(SwitchPriority[2])]
    /\ perr = [t \in Threads |-> <<>>]
    /\ code = <<>>
    /\ entry = [code |-> <<>>, offset |-> 0]
    /\ baseAddress = 0
    /\ offset = 0
    /\ patchOffset = 0
    /\ address = 0
    /\ patch = <<>>
    /\ frequency = 0
    /\ ppc = "idle"
    /\ lpc = "idle"
    /\ executable = NoExecutable
    /\ loadOffset = 0
    /\ lerr = <<>>
    /\ mapped = <<>>
    /\ written = <<>>

\* The supervisor: every guest thread with its watcher, and the render loop.
Next ==
    \/ \E t \in Threads :
        \/ GuestReady(t)
        \/ GuestResume(t)
        \/ \E n \in SvcNumbers : GuestSvc(t, n, 0)
        \/ \E sig \in Signals : GuestFault(t, sig)
        \/ KThreadStart(t)
        \/ StartWait(t)
        \/ StartArgs(t, 0)
        \/ StartRun(t)
        \/ StartSpawn(t)
        \/ Watcher(t)
    \/ Render
    \/ \E b \in BOOLEAN : SetSurface(b)

Spec == Init /\ [][Next]_vars

\* One guest thread (the primary one) with its watcher, and a thread that
\* injects function calls into it through either ExecuteFunction overload.
\* The callers never run StartThread and an injected call on the same
\* thread at once: a call is made before the thread is started or after
\* StartThread has returned.
CallNext ==
    \/ GuestReady(PrimaryPid)
    \/ GuestResume(PrimaryPid)
    \/ \E n \in SvcNumbers, r \in Regs : GuestSvc(PrimaryPid, n, r)
    \/ \E sig \in Signals : GuestFault(PrimaryPid, sig)
    \/ GuestFuncBegin(PrimaryPid)
    \/ \E r \in Regs : GuestFuncEnd(PrimaryPid, r)
    \/ ipc \in {"idle", "done", "failed"} /\ KThreadStart(PrimaryPid)
    \/ StartWait(PrimaryPid)
    \/ \E r \in Regs : StartArgs(PrimaryPid, r)
    \/ StartRun(PrimaryPid)
    \/ StartSpawn(PrimaryPid)
    \/ WatcherPollHalt(PrimaryPid)
    \/ WatcherPollSurface(PrimaryPid)
    \/ WatcherCheckKernel(PrimaryPid)
    \/ WatcherAnnounce(PrimaryPid)
    \/ WatcherTake(PrimaryPid)
    \/ WatcherLock(PrimaryPid)
    \/ WatcherLockedHalt(PrimaryPid)
    \/ WatcherLockedSurface(PrimaryPid)
    \/ WatcherReadSvc(PrimaryPid)
    \/ WatcherDispatch(PrimaryPid)
    \/ WatcherHandlerReturn(PrimaryPid)
    \/ WatcherHandlerThrow(PrimaryPid)
    \/ WatcherRearm(PrimaryPid)
    \/ WatcherCheckCrash(PrimaryPid)
    \/ WatcherCrash(PrimaryPid)
    \/ WatcherTail(PrimaryPid)
    \/ WatcherKillLock(PrimaryPid)
    \/ WatcherKillPrimary(PrimaryPid)
    \/ WatcherKillUnlock(PrimaryPid)
    \/ \E ovl \in {1, 2}, f \in Regs :
          spc[PrimaryPid] \in {"idle", "done"} /\ ExecuteFunction(ovl, PrimaryPid, f)
    \/ \E call \in ThreadCalls : InjectCommand(call)
    \/ InjectSnapshot
    \/ InjectWaitParked
    \/ InjectRegisters
    \/ InjectWaitFunc
    \/ InjectWaitDone
    \/ InjectHarvest
    \/ InjectRestore
    \/ \E b \in BOOLEAN : SetSurface(b)

SpecCall == Init /\ [][CallNext]_vars

\* The supervisor under a fair scheduler: every watcher thread and the render
\* thread keep being scheduled, so a handler or a frame in progress comes to
\* an end and a thread that can leave lock() does. Nothing is assumed of the
\* guest, of thread creation or of the display layer.
SpecFair ==
    /\ Spec
    /\ \A t \in Threads : WF_vars(Watcher(t))
    /\ WF_vars(Render)

\* The priority of the primary thread is set again and again, to any guest
\* priority, with the host accepting or refusing it.
PriorityNext ==
    \E p \in SwitchRange, ok \in BOOLEAN : UpdatePriority(PrimaryPid, p, ok)

SpecPriority == Init /\ [][PriorityNext]_vars

\* The stand-alone GroupMutex with clients that lock as either group.
MutexNext ==
    \E c \in Clients :
        \/ \E g \in Groups : ClientLock(c, g)
        \/ ClientAnnounce(c)
        \/ ClientTake(c)
        \/ ClientAcquire(c)
        \/ ClientUnlock(c)

\* The stand-alone GroupMutex under a fair scheduler: every critical section
\* ends, and a client that can again and again make a step of lock() makes it.
\* No client is obliged to call lock().
SpecMutexFair ==
    /\ Init /\ [][MutexNext]_vars
    /\ \A c \in Clients :
          /\ WF_vars(ClientUnlock(c))
          /\ SF_vars(ClientAnnounce(c))
          /\ SF_vars(ClientTake(c))
          /\ SF_vars(ClientAcquire(c))

SpecMutex == Init /\ [][MutexNext]_vars

\* ================================================================ claims

\* C1: GroupMutex mutual exclusion. Over every interleaving of lock(Group1),
\* lock(Group2) and unlock() by the clients, no state has a thread holding
\* the mutex as Group1 and a thread holding it as Group2.
C1_MutualExclusion ==
    ~(HoldersOf("Group1") # {} /\ HoldersOf("Group2") # {})

\* two threads hold the mutex as one group while a thread of the other group
\* is blocked in lock() and recorded as next
C1_Witness ==
    \E a, b, c \in Clients :
        /\ a # b
        /\ holding[ClientId(a)] = "Group2"
        /\ holding[ClientId(b)] = "Group2"
        /\ want[ClientId(c)] = "Group1"
        /\ next = "Group1"

\* C2: no render-loop iteration (state.gpu->Loop() in NCE::Execute) is in
\* progress while a supervisor-call handler invoked by a watcher is.
C2_RenderExcludesHandlers ==
    \A t \in Threads : ~(pcR = "loop" /\ pcW[t] = "handler")

\* C3: every change of ThreadContext.state is a legal transition.
LegalTransitions ==
    {<<"NotReady", "WaitInit">>, <<"WaitInit", "WaitRun">>,
     <<"WaitRun", "WaitKernel">>, <<"WaitRun", "GuestCrash">>,
     <<"WaitInit", "WaitFunc">>, <<"WaitKernel", "WaitFunc">>,
     <<"WaitFunc", "WaitInit">>, <<"WaitFunc", "WaitKernel">>,
     <<"WaitKernel", "WaitRun">>, <<"GuestCrash", "WaitRun">>}

C3_LegalTransitions ==
    [][\A t \in Threads :
          ctxState'[t] # ctxState[t] => <<ctxState[t], ctxState'[t]>> \in LegalTransitions]_vars

\* C4: strict turn-taking. Every supervisor-side write to state (the
\* watcher's WaitRun on lines 52 and 57, StartThread's WaitRun, an injected
\* call's WaitFunc) happens while state holds the parked value the writer saw.
C4_TurnTaking ==
    [][/\ \A t \in Threads :
            /\ (pcW[t] = "rearm" /\ pcW'[t] # "rearm") => ctxState[t] = "WaitKernel"
            /\ (pcW[t] = "crash" /\ pcW'[t] # "crash") => ctxState[t] = "GuestCrash"
            /\ (spc[t] = "run" /\ spc'[t] # "run") => ctxState[t] = "WaitInit"
       /\ (ipc = "state" /\ ipc' # "state") => ctxState[itgt] \in {"WaitInit", "WaitKernel"}]_vars

\* C5: an injected call writes commandId, registers and state only after it
\* has seen the thread parked, and the commandId a watcher reads for a
\* WaitKernel hand-off is the supervisor-call number the guest wrote.
C5_InjectorWritesOnlyParked ==
    [][/\ (/\ ipc' # ipc
           /\ \/ commandId'[itgt] # commandId[itgt]
              \/ registers'[itgt] # registers[itgt]
              \/ ctxState'[itgt] # ctxState[itgt])
          => ipc \in {"regs", "state", "restore"}
       /\ \A t \in Threads :
            (pcW[t] = "rd" /\ pcW'[t] = "call") => svc'[t] = gcmd[t]]_vars

\* C6: when ExecuteFunction returns, funcRegs holds the registers the guest
\* left when it parked again after the routine, and the context's registers
\* are those the parked thread had before the arguments were written.
C6_RoundTrip ==
    [][(ipc = "restore" /\ ipc' = "done")
          => (funcRegs = gres[itgt] /\ registers'[itgt] = ipre)]_vars

\* C7: through either ExecuteFunction overload, a call made while the
\* process is Exiting fails at once and leaves the Thread Context unchanged.
C7_ExitingFails ==
    [][(ipc \in {"idle", "done", "failed"} /\ ipc' # ipc /\ procStatus = "Exiting")
          => (ipc' = "failed" /\ ctxVars' = ctxVars)]_vars

\* C8: for every WaitKernel hand-off a watcher handles with Halt false and
\* Surface non-null (the checks under JniMtx), the handler selected by
\* commandId is invoked exactly once and, when it returns normally, the
\* watcher sets state to WaitRun; state never goes from WaitKernel to
\* WaitRun unless the handler ran to completion.
C8_HandlerOncePerHandoff ==
    /\ [](\A t \in Threads :
            /\ pcW[t] \in {"rd", "call"} => invoked[t] = <<>>
            /\ pcW[t] \in {"handler", "rearm"} =>
                    (invoked[t] = <<svc[t]>> /\ svc[t] \in Implemented)
            /\ pcW[t] = "rearm" => returned[t])
    /\ [][\A t \in Threads :
            /\ (pcW[t] = "lSurf" /\ Surface /\ pcW'[t] # pcW[t]) => pcW'[t] = "rd"
            /\ (pcW[t] = "rd" /\ pcW'[t] # pcW[t]) =>
                    (pcW'[t] = "call" /\ svc'[t] = commandId[t])
            /\ (pcW[t] = "call" /\ svc[t] \in Implemented /\ pcW'[t] # pcW[t]) =>
                    pcW'[t] = "handler"
            /\ (pcW[t] = "handler" /\ returned'[t]) => pcW'[t] = "rearm"
            /\ (pcW[t] = "rearm" /\ pcW'[t] # pcW[t]) => ctxState'[t] = "WaitRun"
            /\ (ctxState[t] = "WaitKernel" /\ ctxState'[t] = "WaitRun") =>
                    (pcW[t] = "rearm" /\ returned[t])]_vars

\* a watcher has re-armed a hand-off and the guest runs again
C8_Witness ==
    \E t \in Threads :
        /\ pcW[t] = "poll"
        /\ invoked[t] = <<1>>
        /\ returned[t]
        /\ ctxState[t] = "WaitRun"
        /\ gpc[t] = "running"

\* C9: a supervisor-call number without a table entry invokes no handler,
\* raises an error wrapped with the number, ends the watcher loop without
\* re-arming state, and kills only that thread: only the primary thread's
\* watcher sets Halt, and it has set it when it is done; a step of another
\* watcher changes neither Halt nor any other thread.
WatcherExitPcs == {"tail", "klock", "kill", "kunlock", "kill2", "done"}

C9_UnimplementedSvc ==
    /\ [](/\ \A t \in Threads : herr[t] # <<>> => pcW[t] \in WatcherExitPcs
          /\ pcW[PrimaryPid] = "done" => Halt)
    /\ [][\A t \in Threads :
            /\ (pcW[t] = "call" /\ svc[t] \notin Implemented /\ pcW'[t] # pcW[t]) =>
                    /\ invoked'[t] = <<>>
                    /\ herr'[t] = Wrapped(Unimplemented(svc[t]), svc[t])
                    /\ pcW'[t] = "tail"
                    /\ ctxState'[t] = "WaitKernel"
                    /\ holding'[WatcherId(t)] = "None"
            /\ (herr[t] # <<>> /\ pcW'[t] # pcW[t]) => ctxState' = ctxState
            /\ (pcW[t] \in {"kill", "kill2"} /\ pcW'[t] # pcW[t]) =>
                    /\ status'[t] = "Dead"
                    /\ \A u \in Threads \ {t} : status'[u] = status[u] /\ pcW'[u] = pcW[u]
            /\ (pcW'[t] # pcW[t] /\ Halt' # Halt) => t = PrimaryPid
            /\ (pcW'[t] # pcW[t] /\ t # PrimaryPid /\ herr[t] # <<>>) =>
                    (Halt' = Halt /\ procStatus' = procStatus)]_vars

\* the watcher of a thread that is not the primary one ended on an
\* unimplemented call and killed its thread; the primary thread's watcher
\* still polls and Halt is false
C9_Witness ==
    \E t \in Threads \ {PrimaryPid} :
        /\ herr[t] = Wrapped(Unimplemented(0), 0)
        /\ pcW[t] = "done"
        /\ status[t] = "Dead"
        /\ ctxState[t] = "WaitKernel"
        /\ ~Halt
        /\ pcW[PrimaryPid] = "handler"

\* C10: GuestCrash is terminal for a watcher. Once it has seen GuestCrash on
\* line 53 it leaves the poll loop for good and invokes no further handler,
\* whatever the guest writes afterwards.
WatcherPostLoop == WatcherExitPcs \cup {"crash"}

C10_CrashTerminal ==
    [][\A t \in Threads :
          /\ (pcW[t] = "chk2" /\ ctxState[t] = "GuestCrash" /\ pcW'[t] # pcW[t]) =>
                  pcW'[t] = "crash"
          /\ pcW[t] \in WatcherPostLoop =>
                  (pcW'[t] \in WatcherPostLoop /\ invoked'[t] = invoked[t])]_vars

\* a watcher left its loop on a guest crash (Halt false, no exception) and
\* the guest has since written a new WaitKernel hand-off that nobody handles
C10_Witness ==
    \E t \in Threads :
        /\ pcW[t] = "done"
        /\ herr[t] = <<>>
        /\ ~Halt
        /\ ctxState[t] = "WaitKernel"
        /\ commandId[t] = 1

\* positions inside a JniMtx section of the watcher loop (nce.cpp:32-52)
\* and of the render loop (nce.cpp:91-96)
WatcherSectionPcs == {"lHalt", "lSurf", "rd", "call", "handler", "rearm"}
RenderSectionPcs == {"chk", "loop"}

\* C11: shutdown is a group-2 exclusive section. Every step that assigns
\* Halt = true is made by the render loop or by the primary thread's watcher
\* while it holds JniMtx as Group2, and at that step no render-loop
\* iteration and no supervisor-call handler is inside its JniMtx section.
C11_ShutdownGroup2 ==
    [][Halt' # Halt =>
          /\ Halt'
          /\ pcR' # pcR => (pcR = "setHalt" /\ holding[RenderId] = "Group2")
          /\ \A t \in Threads :
                pcW'[t] # pcW[t] =>
                    (t = PrimaryPid /\ pcW[t] = "kill" /\ holding[WatcherId(t)] = "Group2")
          /\ pcR' # pcR \/ \E t \in Threads : pcW'[t] # pcW[t]
          /\ pcR \notin RenderSectionPcs
          /\ \A t \in Threads : pcW[t] \notin WatcherSectionPcs
          /\ HoldersOf("Group1") = {}]_vars

\* the primary thread's watcher has set Halt inside its Group2 section while
\* the render loop and another watcher are blocked at the door of theirs
C11_Witness ==
    /\ Halt
    /\ pcW[PrimaryPid] = "kunlock"
    /\ holding[WatcherId(PrimaryPid)] = "Group2"
    /\ pcR = "lock"
    /\ \E t \in Threads : pcW[t] = "lock"

\* positions of NCE::Execute after its loop (nce.cpp:104-109)
RenderExitPcs == {"tail", "klock", "setHalt", "kunlock", "done"}

\* C12: cooperative cancellation. Once Halt is true the render loop and every
\* watcher loop come to an end (under a fair scheduler, handlers and frames
\* returning); a loop that polls Halt and finds it true leaves at that poll;
\* and a loop that has left starts no new handler and no new render iteration.
C12_Cancellation ==
    /\ Halt ~> (pcR = "done" /\ \A t \in Threads : pcW[t] \in {"none", "done"})
    /\ [][/\ \A t \in Threads :
               /\ (pcW[t] \in {"poll", "lHalt"} /\ Halt /\ pcW'[t] # pcW[t]) => pcW'[t] = "tail"
               /\ pcW[t] \in WatcherExitPcs =>
                      (pcW'[t] \in WatcherExitPcs /\ invoked'[t] = invoked[t])
          /\ (pcR = "chk" /\ Halt /\ pcR' # pcR) => pcR' = "tail"
          /\ pcR \in RenderExitPcs => pcR' \in RenderExitPcs]_vars

\* Halt was set by the render loop after a frame threw; the primary thread's
\* watcher, which was waiting for JniMtx with a hand-off to dispatch, found
\* Halt true inside the section and has returned without calling the handler
C12_Witness ==
    /\ Halt
    /\ pcR = "done"
    /\ pcW[PrimaryPid] = "done"
    /\ ctxState[PrimaryPid] = "WaitKernel"
    /\ invoked[PrimaryPid] = <<>>
    /\ herr[PrimaryPid] = <<>>
    /\ status[PrimaryPid] = "Running"

\* C13: whenever NCE::Execute has returned, and whenever the watcher of the
\* primary thread has returned, Halt is true; a step of the watcher of
\* another thread never changes Halt; Halt is never reset to false.
C13_HaltOnReturn ==
    /\ [](/\ pcR = "done" => Halt
          /\ pcW[PrimaryPid] = "done" => Halt)
    /\ [][/\ Halt => Halt'
          /\ \A t \in Threads \ {PrimaryPid} : pcW'[t] # pcW[t] => Halt' = Halt]_vars

\* the render loop ended on an exception of a frame and set Halt itself, while
\* the watcher of another thread had already returned without setting it
C13_Witness ==
    /\ pcR = "done"
    /\ Halt
    /\ pcW[PrimaryPid] \notin WatcherExitPcs
    /\ procStatus = "Started"
    /\ \E t \in Threads \ {PrimaryPid} : pcW[t] = "done" /\ status[t] = "Dead"

\* the fields of one Thread Context
Ctx(t) == <<ctxState[t], commandId[t], registers[t], tpidrroEl0[t]>>

\* C14: thread start ordering. StartThread leaves the wait of nce.cpp:151
\* only on seeing WaitInit and writes nothing to the context before; the
\* arguments and the thread-local base are written in a step that leaves
\* state alone, before the step that sets WaitRun, which writes nothing
\* else; the guest does not run before that; the watcher is created only
\* after state was set to WaitRun.
C14_StartOrdering ==
    /\ [](\A t \in Threads :
            /\ spc[t] \in {"idle", "wait", "args"} => ~tpidrroEl0[t]
            /\ spc[t] \in {"idle", "wait", "args", "run"} =>
                   (gpc[t] \in {"boot", "parkInit", "funcInit"} /\ pcW[t] = "none")
            /\ pcW[t] # "none" => spc[t] = "done")
    /\ [][\A t \in Threads :
            /\ (spc[t] \in {"idle", "wait"} /\ spc'[t] # spc[t]) => Ctx(t)' = Ctx(t)
            /\ (spc[t] = "wait" /\ spc'[t] # spc[t]) => ctxState[t] = "WaitInit"
            /\ (spc[t] = "args" /\ spc'[t] # spc[t]) =>
                   (spc'[t] = "run" /\ tpidrroEl0'[t] /\ ctxState'[t] = ctxState[t])
            /\ (spc[t] = "run" /\ spc'[t] # spc[t]) =>
                   /\ spc'[t] = "spawn"
                   /\ tpidrroEl0[t]
                   /\ ctxState'[t] = "WaitRun"
                   /\ registers'[t] = registers[t]
                   /\ tpidrroEl0'[t] = tpidrroEl0[t]
            /\ (pcW[t] = "none" /\ pcW'[t] # "none") => (spc[t] = "spawn" /\ Ctx(t)' = Ctx(t))]_vars

\* StartThread has returned: the arguments and the thread-local base are in
\* the context, state is WaitRun, the watcher exists, and the guest has not
\* yet been scheduled to see WaitRun
C14_Witness ==
    /\ spc[PrimaryPid] = "done"
    /\ pcW[PrimaryPid] = "poll"
    /\ tpidrroEl0[PrimaryPid]
    /\ registers[PrimaryPid] = MaxReg
    /\ ctxState[PrimaryPid] = "WaitRun"
    /\ gpc[PrimaryPid] = "parkInit"

\* C15: no starvation. With finite critical sections and a fair scheduler,
\* every client blocked in lock(g) eventually holds the mutex, whatever the
\* clients of the other group do.
C15_NoStarvation ==
    \A c \in Clients : (want[ClientId(c)] # "None") ~> (holding[ClientId(c)] # "None")

C17_MutexInvariant ==
    /\ num = Cardinality({id \in Lockers : holding[id] # "None"})
    /\ num > 0 => (flag # "None" /\ \A id \in Lockers : holding[id] \in {"None", flag})
    /\ (num = 0 /\ next = "None") => flag = "None"

\* all three clients hold the mutex as Group2
C17_Witness ==
    /\ num = NumClients
    /\ flag = "Group2"
    /\ \A c \in Clients : holding[ClientId(c)] = "Group2"

\* no user is blocked in lock() for a group other than g
NoneWaitingBut(g) == \A id \in Lockers : want[id] \in {"None", g}

\* C18: concurrency inside a group. While the mutex is held by group g and
\* no thread of the other group is waiting, a client blocked in lock(g) can
\* return at once, without any holder unlocking first.
C18_SameGroupConcurrency ==
    \A c \in Clients :
        (/\ want[ClientId(c)] # "None"
         /\ num > 0
         /\ flag = want[ClientId(c)]
         /\ NoneWaitingBut(want[ClientId(c)])) => ENABLED ClientAcquire(c)

\* two clients hold the mutex as Group1 at once and the third is idle
C18_Witness ==
    \E a, b, c \in Clients :
        /\ a # b
        /\ holding[ClientId(a)] = "Group1"
        /\ holding[ClientId(b)] = "Group1"
        /\ holding[ClientId(c)] = "None"
        /\ want[ClientId(c)] = "None"
        /\ num = 2

\* C19: unlock. Each unlock() takes one off the holder count; the token is
\* unchanged while the count stays positive and becomes the group recorded
\* as next (None when there is none) when it reaches zero; when nobody holds
\* or waits for the mutex it is back in its initial state.
C19_Unlock ==
    /\ [][\A id \in Lockers :
            (holding[id] # "None" /\ holding'[id] = "None") =>
                /\ num' = num - 1
                /\ num' > 0 => flag' = flag
                /\ num' = 0 => flag' = next
                /\ next' = next]_vars
    /\ []((\A id \in Lockers : want[id] = "None" /\ holding[id] = "None") =>
              (flag = "None" /\ next = "None" /\ num = 0))

\* one of two Group2 holders has unlocked (the token stayed Group2), a
\* Group1 client is recorded as next: the unlock of the last holder is the
\* one that hands the token over
C19_Witness ==
    \E a, b, c \in Clients :
        /\ holding[ClientId(a)] = "Group2"
        /\ want[ClientId(b)] = "Group1"
        /\ want[ClientId(c)] = "None" /\ holding[ClientId(c)] = "None"
        /\ flag = "Group2"
        /\ next = "Group1"
        /\ num = 1

\* C20: the priority mapping is monotonic in favourability. When a thread's
\* guest priority is changed to a numerically lower (better) one and the
\* host accepts both, the host priority applied is at least as favourable as
\* the one before (a nice value less than or equal).
C20_PriorityMonotonic ==
    [][\A t \in Threads :
          (perr[t] = <<>> /\ perr'[t] = <<>> /\ priority'[t] < priority[t]) =>
              linuxPriority'[t] <= linuxPriority[t]]_vars

\* C21: priority rescaling stays in range. For every guest priority p in
\* 0..63 that the host accepted, the host priority applied is the quotient
\* (19 * 63 + (-8 - 19) * p) / 63 truncated toward zero, lies in -8..19,
\* and is 19 for p = 0 and -8 for p = 63.
C21_PriorityRange ==
    \A t \in Threads :
        perr[t] = <<>> =>
            LET n == 19 * 63 + (-8 - 19) * priority[t]
                x == linuxPriority[t]
            IN  /\ priority[t] \in 0 .. 63
                /\ n >= 0 => (63 * x <= n /\ n < 63 * x + 63)
                /\ n < 0 => (63 * x >= n /\ n > 63 * x - 63)
                /\ x \in -8 .. 19
                /\ priority[t] = 0 => x = 19
                /\ priority[t] = 63 => x = -8

\* guest priority 45 gives 19 - 19.28..., a negative fraction, truncated to 0
C21_Witness ==
    /\ priority[PrimaryPid] = 45
    /\ linuxPriority[PrimaryPid] = 0
    /\ perr[PrimaryPid] = <<>>

\* C22: a refused priority is a fatal error. Every call of UpdatePriority
\* either returns normally with the computed host priority applied, or ends
\* with the exception carrying the requested host priority and the thread
\* identifier, the host priority being left as it was.
C22_PriorityFailure ==
    [][\A t \in Threads :
          <<priority[t], linuxPriority[t], perr[t]>>' # <<priority[t], linuxPriority[t], perr[t]>> =>
              \/ /\ perr'[t] = <<>>
                 /\ linuxPriority'[t] = LinuxPriority(priority'[t])
              \/ /\ perr'[t] = <<"Couldn't set process priority", LinuxPriority(priority'[t]), t>>
                 /\ linuxPriority'[t] = linuxPriority[t]]_vars

\* the host refused nice 19 for guest priority 0: the exception names 19 and
\* the thread, and the thread keeps the nice value -8 it had
C22_Witness ==
    /\ priority[PrimaryPid] = 0
    /\ linuxPriority[PrimaryPid] = -8
    /\ perr[PrimaryPid] = <<"Couldn't set process priority", 19, PrimaryPid>>

\* NCE::PatchCode called on instruction streams of up to MaxCode words
PatchNext ==
    \/ \E c \in Streams, base \in Bases, f \in HostFrequencies : PatchCodeCall(c, base, f)
    \/ PatchIter
    \/ PatchReturn

SpecPatch == Init /\ [][PatchNext]_vars

\* Addresses are counted in bytes from the first word of the stream: the
\* word at index i (from 0) lies at 4 * i, and word k (from 0) of the patch
\* buffer lies at entry.offset + 4 * k.
SiteAddress(i) == 4 * i
PatchAddress(k) == entry.offset + 4 * k

\* the loop visits a word for which the predicate Matches holds
Visits(Matches(_)) ==
    /\ ppc = "loop"
    /\ address < Len(code)
    /\ address' = address + 1
    /\ Matches(code[address + 1])

\* the words the visit appended to the patch buffer
Appended == SubSeq(patch', Len(patch) + 1, Len(patch'))

\* C23: for every supervisor-call site, wherever it is in the stream and
\* whatever was patched before it, the word written at the site is a branch
\* to the first word of the site's trampoline, and the last word of the
\* trampoline is a branch to the address of the site plus 4.
C23_SvcBranchTargets ==
    [][Visits(SvcVerify) =>
          /\ Len(patch') > Len(patch)
          /\ BitField(code'[address + 1], 26, 6) = \h5
          /\ SiteAddress(address) + BranchOffset(code'[address + 1]) = PatchAddress(Len(patch))
          /\ BitField(patch'[Len(patch')], 26, 6) = \h5
          /\ PatchAddress(Len(patch') - 1) + BranchOffset(patch'[Len(patch')])
                 = SiteAddress(address) + 4]_vars

\* the third word is a supervisor call patched after a TLS read (six words)
\* and a frequency read (three words) got their trampolines: its branch
\* leads to patch word 9 + 6 + 3 and the trampoline leads back to word 3
C23_Witness ==
    /\ entry.code = <<Mrs(TpidrroEl0, 5), Mrs(CntfrqEl0, 2), Svc(\h7)>>
    /\ frequency # TegraX1Freq
    /\ address = 3
    /\ SiteAddress(2) + BranchOffset(code[3]) = PatchAddress(Len(Prologue) + 6 + 3)
    /\ PatchAddress(Len(patch) - 1) + BranchOffset(patch[Len(patch)]) = SiteAddress(3)

\* the four quarters of a value below 2^31
Quarters(value) == [h \in 0 .. 3 |-> Quarter(value, h)]

\* the words of a supervisor-call trampoline between its first two words
\* and its last five: the move sequence
MovePart(words) == SubSeq(words, 3, Len(words) - 5)

\* C24: for every supervisor-call site, the trampoline loads into X0 the
\* guest base address plus the byte offset of the site in the stream, and
\* into W1 the 16-bit supervisor-call number of the site.
C24_SvcArguments ==
    [][Visits(SvcVerify) =>
          LET movPc == MovePart(Appended)
              movCmd == Appended[Len(Appended) - 4]
          IN  /\ \A k \in 1 .. Len(movPc) : BitField(movPc[k], 0, 5) = regs.X0
              /\ LoadedQuarters(movPc) = Quarters(baseAddress + SiteAddress(address))
              /\ BitField(movCmd, 0, 5) = regs.W1
              /\ LoadedQuarters(<<movCmd>>) = Quarters(SvcValue(code[address + 1]))]_vars

\* the word w, at place k (from 1) of the words just appended, is a
\* branch-with-link to the patch buffer's byte offset target
LinksTo(w, k, target) ==
    /\ BitField(w, 26, 6) = \h25
    /\ PatchAddress(Len(patch) + k - 1) + BranchOffset(w) = PatchAddress(0) + target

\* C25: the words appended for a supervisor-call site are, in order: the
\* store of the link register, the branch-with-link to save-context, the
\* move sequence for X0, the move of the call number into W1, the
\* branch-with-link to the handler stub, the branch-with-link to
\* load-context, the reload of the link register, and the branch back; the
\* offset grows by 4 bytes for each word appended.
C25_SvcWordOrder ==
    [][Visits(SvcVerify) =>
          LET w == Appended
              n == Len(Appended)
              movPc == MovePart(Appended)
          IN  /\ n = 7 + Len(movPc)
              /\ Len(movPc) \in 1 .. 4
              /\ w[1] = <<\hF81F, \h0FFE>>
              /\ LinksTo(w[2], 2, 0)
              /\ BitField(movPc[1], 23, 8) = \hA5
              /\ \A k \in 1 .. Len(movPc) :
                     /\ BitField(movPc[k], 0, 5) = regs.X0
                     /\ BitField(movPc[k], 31, 1) = 1
                     /\ k > 1 => BitField(movPc[k], 23, 8) = \hE5
              /\ BitField(w[n - 4], 23, 8) = \hA5
              /\ BitField(w[n - 4], 0, 5) = regs.W1
              /\ BitField(w[n - 4], 31, 1) = 0
              /\ LinksTo(w[n - 3], n - 3, guest.SaveCtxSize + guest.LoadCtxSize)
              /\ LinksTo(w[n - 2], n - 2, guest.SaveCtxSize)
              /\ w[n - 1] = <<\hF841, \h07FE>>
              /\ BitField(w[n], 26, 6) = \h5
              /\ (offset' + 4) - offset = 4 * n]_vars

\* a supervisor call in the first word was given its nine words (two of
\* them move the program counter), and the offset was 36 bytes larger
\* before the loop stepped it back
C25_Witness ==
    /\ address = 1
    /\ SvcVerify(entry.code[1])
    /\ Len(patch) = Len(Prologue) + 9
    /\ patch[Len(Prologue) + 1] = <<\hF81F, \h0FFE>>
    /\ patch[Len(Prologue) + 8] = <<\hF841, \h07FE>>
    /\ offset + 4 = entry.offset + 4 * Len(Prologue) + 36

\* a supervisor call or a read of one of the three system registers that
\* PatchCode handles
Handled(w) ==
    \/ SvcVerify(w)
    \/ MrsVerify(w) /\ MrsSrcReg(w) \in {TpidrroEl0, CntpctEl0, CntfrqEl0}

\* C26: PatchCode changes only matched sites. The stream keeps its length,
\* each site holds one word, and every word that is neither a supervisor
\* call nor a handled system register read (and every word not visited yet)
\* is the word the stream held on entry.
C26_OnlyMatchedSites ==
    /\ Len(code) = Len(entry.code)
    /\ \A i \in 1 .. Len(code) :
           (~Handled(entry.code[i]) \/ i > address) => code[i] = entry.code[i]

\* a stream was patched to the end: the NOP and the read of CNTVCT_EL0
\* around a supervisor call are as they were, the call is not
C26_Witness ==
    /\ ppc = "done"
    /\ entry.code = <<Nop, Svc(\h7), Mrs(CntvctEl0, 1)>>
    /\ Len(code) = 3
    /\ code[1] = Nop
    /\ code[2] # Svc(\h7)
    /\ code[3] = Mrs(CntvctEl0, 1)

\* a read of the system register sysreg
Reads(sysreg, w) == MrsVerify(w) /\ MrsSrcReg(w) = sysreg
ReadsCntpct(w) == Reads(CntpctEl0, w)
ReadsCntfrq(w) == Reads(CntfrqEl0, w)

\* C27: when the host counter frequency is the reference frequency
\* (19200000), every read of CNTPCT_EL0 is rewritten in place into a read
\* of CNTVCT_EL0 with the same destination register, and the patch buffer
\* does not grow for that site.
C27_SameFrequencyInPlace ==
    [][(Visits(ReadsCntpct) /\ frequency = 19200000) =>
          /\ MrsVerify(code'[address + 1])
          /\ MrsSrcReg(code'[address + 1]) = CntvctEl0
          /\ MrsDestReg(code'[address + 1]) = MrsDestReg(code[address + 1])
          /\ patch' = patch
          /\ offset' = offset - 4]_vars

\* on a host of the reference frequency, MRS X3, CNTPCT_EL0 after a
\* supervisor call became MRS X3, CNTVCT_EL0, the patch holding the
\* prologue and the nine words of the supervisor call
C27_Witness ==
    /\ frequency = TegraX1Freq
    /\ entry.code = <<Svc(\h7), Mrs(CntpctEl0, 3)>>
    /\ address = 2
    /\ code[2] = Mrs(CntvctEl0, 3)
    /\ Len(patch) = Len(Prologue) + 9

\* The visited site got a trampoline that loads the value into the
\* destination register of the visited word and branches back: the site
\* holds a branch to the first appended word, the words before the last
\* load the value, and the last is a branch to the word after the site.
LoadsConstant(value) ==
    LET movFreq == SubSeq(Appended, 1, Len(Appended) - 1)
    IN  /\ Len(Appended) >= 2
        /\ BitField(code'[address + 1], 26, 6) = \h5
        /\ SiteAddress(address) + BranchOffset(code'[address + 1]) = PatchAddress(Len(patch))
        /\ \A k \in 1 .. Len(movFreq) :
               BitField(movFreq[k], 0, 5) = MrsDestReg(code[address + 1])
        /\ LoadedQuarters(movFreq) = Quarters(value)
        /\ BitField(patch'[Len(patch')], 26, 6) = \h5
        /\ PatchAddress(Len(patch') - 1) + BranchOffset(patch'[Len(patch')])
               = SiteAddress(address) + 4

\* C28 as stated: every read of CNTFRQ_EL0 is replaced by a branch to a
\* trampoline that loads 19200000 into the destination register and
\* branches back, whatever the host counter frequency is.
C28_FrequencyReadAlways ==
    [][Visits(ReadsCntfrq) => LoadsConstant(19200000)]_vars

\* C28, amended: a read of CNTFRQ_EL0 is replaced by a branch to a
\* trampoline that loads 19200000 into the destination register and
\* branches back when the host counter frequency is not 19200000; on a
\* host of that frequency the read stays as it is and the patch buffer
\* does not grow.
C28_FrequencyRead ==
    [][Visits(ReadsCntfrq) =>
          IF frequency # 19200000 THEN LoadsConstant(19200000)
          ELSE /\ code' = code
               /\ patch' = patch
               /\ offset' = offset - 4]_vars

\* on a host of another frequency MRS X2, CNTFRQ_EL0 got its trampoline:
\* two moves that load 19200000 into X2 and the branch back
C28_Witness ==
    /\ frequency # TegraX1Freq
    /\ entry.code = <<Mrs(CntfrqEl0, 2)>>
    /\ address = 1
    /\ Len(patch) = Len(Prologue) + 3
    /\ LoadedQuarters(SubSeq(patch, Len(Prologue) + 1, Len(Prologue) + 2)) = Quarters(TegraX1Freq)
    /\ BitField(patch[Len(Prologue) + 1], 0, 5) = 2

\* C30: in every supervisor-call trampoline, wherever it lies in the patch
\* buffer, the three branch-with-link words lead, in this order, to the
\* start of save-context (patch offset 0), to the start of the handler stub
\* (patch offset SaveCtxSize + LoadCtxSize) and to the start of
\* load-context (patch offset SaveCtxSize); no word already in the patch
\* buffer is changed afterwards.
C30_SharedRoutineTargets ==
    [][/\ Visits(SvcVerify) =>
              LET links == {k \in 1 .. Len(Appended) : BitField(Appended[k], 26, 6) = \h25}
                  nth(j) == CHOOSE k \in links : Cardinality({i \in links : i < k}) = j - 1
              IN  /\ Cardinality(links) = 3
                  /\ LinksTo(Appended[nth(1)], nth(1), 0)
                  /\ LinksTo(Appended[nth(2)], nth(2), guest.SaveCtxSize + guest.LoadCtxSize)
                  /\ LinksTo(Appended[nth(3)], nth(3), guest.SaveCtxSize)
       /\ Len(patch') >= Len(patch)
       /\ SubSeq(patch', 1, Len(patch)) = patch]_vars

\* the second supervisor call of a stream, its trampoline lying behind the
\* first one's, links to the three routines of the prologue: the patch
\* words 0, 5 and 2
C30_Witness ==
    /\ entry.code = <<Svc(\h7), Nop, Svc(\hFFFF)>>
    /\ address = 3
    /\ Len(patch) = Len(Prologue) + 18
    /\ PatchAddress(Len(Prologue) + 10) + BranchOffset(patch[Len(Prologue) + 11]) = PatchAddress(0)
    /\ PatchAddress(Len(Prologue) + 14) + BranchOffset(patch[Len(Prologue) + 15]) = PatchAddress(5)
    /\ PatchAddress(Len(Prologue) + 15) + BranchOffset(patch[Len(Prologue) + 16]) = PatchAddress(2)

\* Loader::LoadExecutable called once, with NCE::PatchCode inside it
LoadNext ==
    \/ \E exe \in Executables, off \in LoadOffsets, f \in HostFrequencies : LoadExecutable(exe, off, f)
    \/ PatchIter
    \/ PatchReturn
    \/ LoadMap
    \/ LoadWrite

SpecLoad == Init /\ [][LoadNext]_vars

\* C29: if a size or an offset of the text, read-only or data section of
\* an executable is not a multiple of the page size, LoadExecutable fails
\* with an alignment error before PatchCode is called: the text contents
\* are as they were, no region is mapped and nothing is written.
C29_MisalignedFailsEarly ==
    LET e == executable
        measures == {4 * Len(e.text.contents), e.ro.size, e.data.size + e.bssSize,
                     e.text.offset, e.ro.offset, e.data.offset}
    IN  (lpc # "idle" /\ \E v \in measures : v % 4096 # 0) =>
            /\ lpc = "failed"
            /\ lerr # <<>>
            /\ lerr[1] \in {"LoadProcessData: Sections are not aligned with page size",
                            "LoadProcessData: Section offsets are not aligned with page size"}
            /\ ppc = "idle"
            /\ patch = <<>>
            /\ code = e.text.contents
            /\ mapped = <<>>
            /\ written = <<>>

\* an executable whose sizes are aligned and whose text offset is 16 was
\* refused: the text holds its supervisor call, nothing is mapped
C29_Witness ==
    /\ lpc = "failed"
    /\ executable.text.offset = 16
    /\ lerr = <<"LoadProcessData: Section offsets are not aligned with page size",
                16, PAGE_SIZE, 2 * PAGE_SIZE>>
    /\ SvcVerify(code[1])
    /\ patch = <<>>
    /\ mapped = <<>>
    /\ written = <<>>

\* C31: loop invariant of PatchCode. At the start of every iteration (and
\* when the loop ends) offset is the address of the end of the patch buffer
\* minus the address of the word examined, and patchOffset is the address
\* of the patch region minus the address of that word, after any mix of
\* matched and unmatched words.
C31_LoopInvariant ==
    ppc = "loop" =>
        /\ offset = PatchAddress(Len(patch)) - SiteAddress(address)
        /\ patchOffset = PatchAddress(0) - SiteAddress(address)

\* after a supervisor call, a NOP and a TLS read into X5 the patch holds
\* the prologue and 9 + 6 words, and three words were stepped over
C31_Witness ==
    /\ ppc = "loop"
    /\ entry.code = <<Svc(\h7), Nop, Mrs(TpidrroEl0, 5)>>
    /\ address = 3
    /\ Len(patch) = Len(Prologue) + 9 + 6
    /\ offset = entry.offset + 4 * (Len(Prologue) + 15) - 12
    /\ patchOffset = entry.offset - 12

\* The site at index i (from 1) was given a trampoline: it holds a branch
\* that it did not hold on entry.
Patched(i) == i <= address /\ code[i] # entry.code[i] /\ BitField(code[i], 26, 6) = \h5

\* the patch word (from 0) the branch at site i leads to
FirstWord(i) == (SiteAddress(i - 1) + BranchOffset(code[i]) - PatchAddress(0)) \div 4

\* the patch words (from 0) that are branches back behind site i
BackWords(i) ==
    {k \in 0 .. Len(patch) - 1 :
        /\ BitField(patch[k + 1], 26, 6) = \h5
        /\ PatchAddress(k) + BranchOffset(patch[k + 1]) = SiteAddress(i)}

\* C32: the patch buffer is append-only with a fixed prologue. It starts
\* with save-context, load-context and the handler stub at the offsets 0,
\* SaveCtxSize and SaveCtxSize + LoadCtxSize; no step changes a word the
\* buffer already holds; the trampoline of an earlier site ends before the
\* trampoline of any later site begins.
C32_AppendOnly ==
    /\ [](ppc # "idle" =>
           /\ SubSeq(patch, 1, guest.SaveCtxSize \div 4) = GuestRoutine(1, guest.SaveCtxSize)
           /\ SubSeq(patch, guest.SaveCtxSize \div 4 + 1,
                     (guest.SaveCtxSize + guest.LoadCtxSize) \div 4)
                  = GuestRoutine(2, guest.LoadCtxSize)
           /\ SubSeq(patch, (guest.SaveCtxSize + guest.LoadCtxSize) \div 4 + 1,
                     (guest.SaveCtxSize + guest.LoadCtxSize + guest.SvcHandlerSize) \div 4)
                  = GuestRoutine(3, guest.SvcHandlerSize)
           /\ \A i \in 1 .. Len(code) :
                  Patched(i) =>
                      /\ FirstWord(i) >= (guest.SaveCtxSize + guest.LoadCtxSize + guest.SvcHandlerSize) \div 4
                      /\ Cardinality(BackWords(i)) = 1
                      /\ \A k \in BackWords(i) : k > FirstWord(i)
                      /\ \A j \in i + 1 .. Len(code) :
                             Patched(j) => \A k \in BackWords(i) : k < FirstWord(j))
    /\ [][ppc = "loop" => (Len(patch') >= Len(patch) /\ SubSeq(patch', 1, Len(patch)) = patch)]_vars

\* three sites were patched: the trampolines of 9, 3 and 9 words follow
\* the 9 words of the prologue one after the other
C32_Witness ==
    /\ ppc = "done"
    /\ entry.code = <<Svc(\h7), Mrs(TpidrroEl0, 0), Svc(\hFFFF)>>
    /\ Len(patch) = Len(Prologue) + 9 + 3 + 9
    /\ FirstWord(1) = Len(Prologue)
    /\ FirstWord(2) = Len(Prologue) + 9
    /\ FirstWord(3) = Len(Prologue) + 12

ReadsTpidrro(w) == Reads(TpidrroEl0, w)

\* the word w, at place k (from 1) of the words just appended, is a branch
\* to the word after the visited site
BranchesBack(w, k) ==
    /\ BitField(w, 26, 6) = \h5
    /\ PatchAddress(Len(patch) + k - 1) + BranchOffset(w) = SiteAddress(address) + 4

\* C33: for a read of TPIDRRO_EL0 into Xn with n not 0 the trampoline is
\* exactly: STR X0 (spill), MRS X0 from the host TLS register, LDR X0 (the
\* guest value), MOV Xn, X0, LDR X0 (reload), branch back; for n = 0 it is
\* exactly: MRS, LDR, branch back. Spill and reload come together or not
\* at all.
C33_TlsTrampoline ==
    [][Visits(ReadsTpidrro) =>
          LET w == Appended
              n == MrsDestReg(code[address + 1])
              reads(m) == MrsVerify(m) /\ MrsSrcReg(m) = \h5E82 /\ MrsDestReg(m) = 0
          IN  IF n # 0
              THEN /\ Len(w) = 6
                   /\ w[1] = <<\hF81F, \h0FE0>>
                   /\ reads(w[2])
                   /\ w[3] = <<\hF940, \h8000>>
                   /\ w[4] = <<\hAA00, \h03E0 + n>>
                   /\ w[5] = <<\hF841, \h07E0>>
                   /\ BranchesBack(w[6], 6)
              ELSE /\ Len(w) = 3
                   /\ reads(w[1])
                   /\ w[2] = <<\hF940, \h8000>>
                   /\ BranchesBack(w[3], 3)]_vars

\* a read into X5 got six words, the read into X0 after it got three
C33_Witness ==
    /\ entry.code = <<Mrs(TpidrroEl0, 5), Mrs(TpidrroEl0, 0)>>
    /\ address = 2
    /\ Len(patch) = Len(Prologue) + 6 + 3
    /\ patch[Len(Prologue) + 1] = <<\hF81F, \h0FE0>>
    /\ patch[Len(Prologue) + 4] = <<\hAA00, \h03E5>>
    /\ patch[Len(Prologue) + 5] = <<\hF841, \h07E0>>
    /\ patch[Len(Prologue) + 7] = <<\hD53B, \hD040>>

\* a system register read that gets a trampoline on this host
ReadWithTrampoline(w) ==
    \/ ReadsTpidrro(w)
    \/ frequency # TegraX1Freq /\ (ReadsCntpct(w) \/ ReadsCntfrq(w))

\* C35: for every trampoline made for a system register read (TLS base,
\* rescaled cycle counter, counter frequency) the branch written at the
\* site leads to the first word of the trampoline, the last word of the
\* trampoline is a branch to the site plus 4, and the offset grows by the
\* byte size of the words appended for the site.
C35_ReadBranchTargets ==
    [][Visits(ReadWithTrampoline) =>
          /\ Len(Appended) >= 2
          /\ BitField(code'[address + 1], 26, 6) = \h5
          /\ SiteAddress(address) + BranchOffset(code'[address + 1]) = PatchAddress(Len(patch))
          /\ BranchesBack(Appended[Len(Appended)], Len(Appended))
          /\ (offset' + 4) - offset = 4 * Len(Appended)]_vars

\* a read of the cycle counter in the second word, on a host of another
\* frequency, got the rescaling routine and three more words; its branch
\* leads behind the prologue and the last word leads back to the third word
C35_Witness ==
    /\ frequency # TegraX1Freq
    /\ entry.code = <<Nop, Mrs(CntpctEl0, 3), Nop>>
    /\ address = 2
    /\ Len(patch) = Len(Prologue) + guest.RescaleClockSize \div 4 + 3
    /\ SiteAddress(1) + BranchOffset(code[2]) = PatchAddress(Len(Prologue))
    /\ PatchAddress(Len(patch) - 1) + BranchOffset(patch[Len(patch)]) = SiteAddress(2)

\* C36: the offset and the base address the loader passes to PatchCode
\* agree with where it places the results. The address the patch buffer is
\* written to minus the address the patched text is written to is the
\* offset argument, and the base address used for program counter values
\* is the address of the first text word, for every page-aligned
\* text.offset.
C36_PlacementAgrees ==
    lpc = "done" =>
        /\ written[1].address - written[2].address = entry.offset
        /\ baseAddress = written[2].address

\* C37: the patch buffer PatchCode returns never exceeds the patch region
\* of 0x10 pages: the bytes written at the patch base end at or below the
\* executable base, so that the patch and the text never share an address.
C37_PatchFitsRegion ==
    lpc = "done" =>
        /\ written[1].size <= 16 * 4096
        /\ written[1].address + written[1].size <= ExecutableBase
        /\ written[1].address + written[1].size <= written[2].address

\* Loader::LoadExecutable as one step, on executables of every size
LoadWholeNext ==
    \E exe \in WholeExecutables, f \in HostFrequencies : LoadExecutableWhole(exe, f)

SpecLoadWhole == Init /\ [][LoadWholeNext]_vars

\* C34: every branch displacement PatchCode emits fits the signed 26-bit
\* word range of the branch, for every code section the loader accepts
\* (and one that does not fit makes the load fail instead of being encoded
\* truncated): in a finished load the branch at every patched site leads
\* into the trampolines of the patch buffer, and one branch of the patch
\* buffer leads back to the word after the site.
C34_DisplacementsFit ==
    lpc = "done" =>
        \A i \in 1 .. Len(code) :
            (code[i] # entry.code[i] /\ BitField(code[i], 26, 6) = \h5) =>
                LET site == 4 * (executable.text.leading + i - 1)
                    target == site + BranchOffset(code[i])
                IN  /\ target >= PatchAddress(Len(Prologue))
                    /\ target < PatchAddress(Len(patch))
                    /\ \E k \in 0 .. Len(patch) - 1 :
                           /\ BitField(patch[k + 1], 26, 6) = \h5
                           /\ PatchAddress(k) + BranchOffset(patch[k + 1]) = site + 4

\* ---------------------------------------------------- the thread lifecycle
\* KThread::Kill called from outside the watchers (the destructor
\* KThread.cpp:14-16, or a handler that ends a thread)
KThreadKill(t) ==
    /\ Kill(t)
    /\ UNCHANGED <<mtxVars, prioVars, patchVars, loadVars, Halt, Surface, ctxVars, guestVars, procStatus, spc,
                   watchVars, pcR, injVars>>

\* Every guest thread with its watcher, as in Spec but without the render
\* loop, and callers that make Start and Kill calls in any order.
LifeNext ==
    \/ \E t \in Threads :
        \/ GuestReady(t)
        \/ GuestResume(t)
        \/ \E n \in SvcNumbers : GuestSvc(t, n, 0)
        \/ \E sig \in Signals : GuestFault(t, sig)
        \/ KThreadStart(t)
        \/ KThreadKill(t)
        \/ StartWait(t)
        \/ StartArgs(t, 0)
        \/ StartRun(t)
        \/ StartSpawn(t)
        \/ Watcher(t)
    \/ \E b \in BOOLEAN : SetSurface(b)

SpecLife == Init /\ [][LifeNext]_vars

\* positions of the watcher loop outside its JniMtx section (nce.cpp:24-31, 53)
WatcherPollPcs == {"poll", "surf", "chk", "chk2"}

\* C38: a watcher invokes a supervisor-call handler only from inside its
\* JniMtx section and after it found, inside it, Halt false and then Surface
\* non-null; a watcher that finds Surface null (before or inside the
\* section) goes back to the poll without invoking a handler and without
\* touching the hand-off, which stays WaitKernel with its call number, so
\* a later pass that finds Surface set dispatches it; and whenever the
\* watcher is polling it holds no share of JniMtx and waits for none.
C38_DispatchNeedsSurface ==
    /\ [](\A t \in Threads :
            /\ pcW[t] \in WatcherSectionPcs => holding[WatcherId(t)] = DefaultGroup
            /\ pcW[t] \in WatcherPollPcs =>
                   (holding[WatcherId(t)] = "None" /\ want[WatcherId(t)] = "None"))
    /\ [][\A t \in Threads :
            /\ (pcW'[t] = "lHalt" /\ pcW[t] # "lHalt") => pcW[t] = "lock"
            /\ (pcW'[t] = "lSurf" /\ pcW[t] # "lSurf") => (pcW[t] = "lHalt" /\ ~Halt)
            /\ (pcW'[t] = "rd" /\ pcW[t] # "rd") => (pcW[t] = "lSurf" /\ Surface)
            /\ (pcW'[t] = "call" /\ pcW[t] # "call") => pcW[t] = "rd"
            /\ (pcW'[t] = "handler" /\ pcW[t] # "handler") => pcW[t] = "call"
            /\ (invoked'[t] # invoked[t] /\ invoked'[t] # <<>>) => pcW'[t] = "handler"
            /\ (pcW[t] \in {"surf", "lSurf"} /\ ~Surface /\ pcW'[t] # pcW[t]) =>
                   /\ pcW'[t] = "poll"
                   /\ holding'[WatcherId(t)] = "None"
                   /\ invoked'[t] = invoked[t]
                   /\ ctxState'[t] = ctxState[t]
                   /\ commandId'[t] = commandId[t]
            /\ (pcW[t] = "surf" /\ Surface /\ pcW'[t] # pcW[t]) => pcW'[t] = "chk"
            /\ (pcW[t] = "chk" /\ ctxState[t] = "WaitKernel" /\ pcW'[t] # pcW[t]) =>
                   pcW'[t] = "lock"]_vars

\* a watcher holds JniMtx for a pending hand-off of an implemented call and
\* has found Halt false, while Surface is null: the hand-off is about to be
\* left as it is
C38_Witness ==
    \E t \in Threads :
        /\ pcW[t] = "lSurf"
        /\ ~Surface
        /\ ~Halt
        /\ holding[WatcherId(t)] = DefaultGroup
        /\ ctxState[t] = "WaitKernel"
        /\ commandId[t] \in Implemented
        /\ invoked[t] = <<>>

\* how far a StartThread call has come
SpcRank(p) ==
    CASE p = "idle" -> 0
      [] p = "wait" -> 1
      [] p = "args" -> 2
      [] p = "run" -> 3
      [] p = "spawn" -> 4
      [] p = "done" -> 5

\* C39: the lifecycle of a KThread is one-way. status changes only from
\* Created to Running, from Created to Dead and from Running to Dead;
\* StartThread is entered only by a Start() that finds Created and makes it
\* Running, so it is entered at most once per guest thread, it never starts
\* over, and it creates the watcher of a thread exactly when none exists;
\* Signal() is called only by the Kill() that makes the thread Dead, hence
\* at most once; and for a thread killed before it was started nothing is
\* started afterwards: no StartThread, no watcher, and its guest never runs.
C39_LifecycleOneWay ==
    /\ [](\A t \in Threads :
            /\ status[t] = "Created" => (spc[t] = "idle" /\ pcW[t] = "none")
            /\ pcW[t] # "none" => spc[t] = "done"
            /\ signals[t] = (IF status[t] = "Dead" THEN 1 ELSE 0))
    /\ [][\A t \in Threads :
            /\ status'[t] # status[t] =>
                   \/ status[t] = "Created" /\ status'[t] \in {"Running", "Dead"}
                   \/ status[t] = "Running" /\ status'[t] = "Dead"
            /\ (spc[t] = "idle" /\ spc'[t] # "idle") =>
                   (status[t] = "Created" /\ status'[t] = "Running" /\ spc'[t] = "wait")
            /\ SpcRank(spc'[t]) >= SpcRank(spc[t])
            /\ (pcW[t] = "none" /\ pcW'[t] # "none") =>
                   (spc[t] = "spawn" /\ spc'[t] = "done" /\ pcW'[t] = "poll")
            /\ pcW[t] # "none" => pcW'[t] # "none"
            /\ signals'[t] # signals[t] =>
                   (status[t] # "Dead" /\ status'[t] = "Dead" /\ signals'[t] = signals[t] + 1)
            /\ (status[t] = "Dead" /\ spc[t] = "idle") =>
                   (spc'[t] = "idle" /\ pcW'[t] = "none" /\ gpc'[t] \in {"boot", "parkInit"})]_vars

\* one thread was killed before it was ever started and nothing runs for it
\* although its guest is ready; another was started, got its watcher, and
\* was then killed from outside while the watcher ran a handler
C39_Witness ==
    \E t, u \in Threads :
        /\ status[t] = "Dead"
        /\ spc[t] = "idle"
        /\ pcW[t] = "none"
        /\ signals[t] = 1
        /\ ctxState[t] = "WaitInit"
        /\ status[u] = "Dead"
        /\ spc[u] = "done"
        /\ pcW[u] = "handler"
        /\ signals[u] = 1

\* the share of JniMtx a watcher, and the render loop, holds at each position
WatcherShare(p) ==
    IF p \in WatcherSectionPcs THEN DefaultGroup
    ELSE IF p \in {"kill", "kunlock"} THEN "Group2"
    ELSE "None"

RenderShare(p) ==
    IF p \in RenderSectionPcs THEN DefaultGroup
    ELSE IF p \in {"setHalt", "kunlock"} THEN "Group2"
    ELSE "None"

\* C40: lock balance. A watcher and the render loop hold a share of JniMtx
\* exactly inside their sections (the loop section, and the Group2 section
\* of the shutdown), every share is taken by one acquisition that counts one
\* holder and given back by one release that counts one holder less, and
\* the holder count is the number of shares held; so whichever way a loop is
\* left (Halt seen outside or inside the section, Surface missing, an
\* unimplemented call or a handler error, a guest crash, a frame that
\* throws, the kill of the primary thread), a watcher or render loop that
\* has left its loop or returned holds no share and waits for none, and once
\* all have returned nobody holds JniMtx and its token is free.
C40_LockBalance ==
    /\ [](/\ \A t \in Threads : holding[WatcherId(t)] = WatcherShare(pcW[t])
          /\ holding[RenderId] = RenderShare(pcR)
          /\ \A t \in Threads :
                pcW[t] \in {"none", "tail", "kill2", "done"} => want[WatcherId(t)] = "None"
          /\ pcR \in {"tail", "done"} => want[RenderId] = "None"
          /\ num = Cardinality({id \in Lockers : holding[id] # "None"})
          /\ (pcR = "done" /\ \A t \in Threads : pcW[t] \in {"none", "done"}) =>
                (num = 0 /\ flag = "None" /\ HoldersOf("Group1") = {} /\ HoldersOf("Group2") = {}))
    /\ [][\A id \in Lockers :
            holding'[id] # holding[id] =>
                \/ holding[id] = "None" /\ num' = num + 1
                \/ holding'[id] = "None" /\ num' = num - 1]_vars

\* a watcher returned after a handler error (its thread is not the primary
\* one) and the primary thread's watcher returned after a guest crash and
\* the kill of its thread; the render loop, of the other group in the
\* shutdown, then took JniMtx as Group2 after a frame threw
C40_Witness ==
    /\ pcW[PrimaryPid] = "done"
    /\ herr[PrimaryPid] = <<>>
    /\ \E t \in Threads \ {PrimaryPid} : pcW[t] = "done" /\ herr[t] = Wrapped(HandlerError(1), 1)
    /\ pcR = "kunlock"
    /\ holding[RenderId] = "Group2"
    /\ num = 1

============================================================================
